---- MODULE Spec2Model ----
(***************************************************************************)
(* A model of tilecutter's Godot resource reader and writer:               *)
(*   src/src/godot/godot_file.rs  tokenizer, tag parser, value model       *)
(*   src/src/godot/resource.rs    the TileSet resource mapper              *)
(*                                                                         *)
(* A file is a sequence of bytes and a String a sequence of chars, both    *)
(* given by their codes: the tokenizer makes of each byte the char of the  *)
(* same code (`c as char`), the writer writes a String in UTF-8.           *)
(* Every parsing function of the source is an operator that takes the      *)
(* tokenizer and returns the tokenizer after the call together with the    *)
(* result: [t |-> tokenizer, r |-> result].  A result is a record whose    *)
(* field k is "Err" (Err(..)), "None" (Ok(None)), "Some" (with the value   *)
(* in field v) or the kind of the token or value.                          *)
(*                                                                         *)
(* A value computed once and used several times is handed to a helper      *)
(* operator as a parameter (f(t) == f_at(g(t))), so a function of the      *)
(* source is a small family of operators.                                  *)
(***************************************************************************)
EXTENDS Integers, Sequences, FiniteSets, TLC

VARIABLES
    pc,         \* where the run is: the loop position of parse_file, or the mapper's step
    tokens,     \* parse_file: the Tokenizer (unread bytes, pushback slot)
    header,     \* parse_file: the header tag once parsed
    tags,       \* parse_file: the body tags pushed so far
    cur,        \* parse_file: the body tag whose assigns are being read
    error,      \* the message of the error the run ended with
    last,       \* the last parsing call made by parse_file: its function, input and result
    file,       \* the GodotFile handed to TileSetResource::init_from_file
    resource,   \* the TileSetResource
    config,     \* the Config of the run
    out,        \* the document print_to_file builds (the tags handed to the writer)
    writer,     \* the destination file: whether it was created, the bytes written
    rewritten,  \* the bytes of a parsed document written back by the writer
    tile_call,  \* Tile::append_assigns on its own: the tile, the list before and after
    fmt_call,   \* godot_fmt on its own: the value, the renderer's run, Value::parse of it
    run_call,   \* try_run: what it finds on disk, and the steps it has completed
    image_call, \* write_tile_set_image on its own: the tiles, the build, the result
    parse_call  \* next_token, Value::parse or Tag::parse on its own: the bytes, the results

\* the variables of the calls checked on their own
call_vars == <<tile_call, fmt_call, run_call, image_call, parse_call>>

vars ==
    <<pc, tokens, header, tags, cur, error, last, file, resource, config, out, writer,
      rewritten, call_vars>>

----------------------------------------------------------------------------
(* Bounds of the model *)

\* longest raw byte input
MaxRaw == 3
\* most fragments in a generated tag header
MaxHeadFrags == 4
\* most fragments in a generated tag body
MaxBodyFrags == 4
\* most fields in a generated header tag
MaxHeaderFields == 2

----------------------------------------------------------------------------
(* Option<u8>, results *)

\* Option<u8>::None
NoByte == -1

None == [k |-> "None"]
Some(v) == [k |-> "Some", v |-> v]
Err(msg) == [k |-> "Err", msg |-> msg]

\* const FORMAT_VERSION
FORMAT_VERSION == 3

----------------------------------------------------------------------------
(* Byte classes: u8::is_ascii_digit, is_ascii_hexdigit, is_ascii_alphabetic, *)
(* is_ascii_alphanumeric                                                   *)

IsDigit(c) == c >= 48 /\ c <= 57
IsHexDigit(c) == IsDigit(c) \/ (c >= 97 /\ c <= 102) \/ (c >= 65 /\ c <= 70)
IsAlphabetic(c) == (c >= 97 /\ c <= 122) \/ (c >= 65 /\ c <= 90)
IsAlphanumeric(c) == IsAlphabetic(c) \/ IsDigit(c)

----------------------------------------------------------------------------
(* struct Tokenizer { bytes, saved }.  `panicked` records that the         *)
(* assertion of save_byte failed, `clobbered` that a direct store into the *)
(* pushback slot overwrote a buffered byte, `sites` which places of the    *)
(* code have pushed a byte back so far.                                    *)

Tokenizer(bytes) ==
    [bytes |-> bytes, saved |-> NoByte, panicked |-> FALSE, clobbered |-> FALSE,
     sites |-> {}]

\* a faulty next_byte: reads the stream before the pushback slot
next_byte_stream_first(t) ==
    IF t.bytes # << >>
    THEN [t |-> [t EXCEPT !.bytes = Tail(@)], b |-> Head(t.bytes)]
    ELSE [t |-> [t EXCEPT !.saved = NoByte], b |-> t.saved]

next_byte(t) ==
    IF t.saved # NoByte
    THEN [t |-> [t EXCEPT !.saved = NoByte], b |-> t.saved]
    ELSE IF t.bytes # << >>
         THEN [t |-> [t EXCEPT !.bytes = Tail(@)], b |-> Head(t.bytes)]
         ELSE [t |-> t, b |-> NoByte]

\* `site` names the place of the call
save_byte(t, byte, site) ==
    [t EXCEPT !.panicked = @ \/ (t.saved # NoByte),
              !.saved = byte,
              !.sites = @ \cup {site}]

\* `self.saved = next` at the end of the number scanner
store_saved(t, next) ==
    [t EXCEPT !.clobbered = @ \/ (t.saved # NoByte),
              !.saved = next,
              !.sites = IF next # NoByte THEN @ \cup {"number"} ELSE @]

----------------------------------------------------------------------------
(* Numbers.  An i64 is a TLA+ integer.  An f64 is its decimal value:       *)
(* cls is "finite", "inf", "neg_inf" or "nan"; a finite double is          *)
(* (-1)^neg * m * 10^e with m not a multiple of 10 (m = 0, e = 0 for zero, *)
(* which keeps its sign as in IEEE 754).                                   *)

RECURSIVE DigitsValue(_)
DigitsValue(ds) ==
    IF ds = << >> THEN 0
    ELSE 10 * DigitsValue(SubSeq(ds, 1, Len(ds) - 1)) + (ds[Len(ds)] - 48)

RECURSIVE TakeDigits(_)
TakeDigits(s) ==
    IF s # << >> /\ IsDigit(Head(s)) THEN <<Head(s)>> \o TakeDigits(Tail(s)) ELSE << >>

RECURSIVE StripZeros(_)
StripZeros(ds) ==
    IF Len(ds) > 1 /\ Head(ds) = 48 THEN StripZeros(Tail(ds)) ELSE ds

RECURSIVE LexLeq(_, _)
LexLeq(a, b) ==
    IF a = << >> THEN TRUE
    ELSE IF Head(a) # Head(b) THEN Head(a) < Head(b)
    ELSE LexLeq(Tail(a), Tail(b))

\* the digits of i64::MAX = 9223372036854775807 and of |i64::MIN|
I64MaxDigits == <<57,50,50,51,51,55,50,48,51,54,56,53,52,55,55,53,56,48,55>>
I64MinDigits == <<57,50,50,51,51,55,50,48,51,54,56,53,52,55,55,53,56,48,56>>

RECURSIVE NumDigits(_)
NumDigits(n) == IF n < 10 THEN 1 ELSE 1 + NumDigits(n \div 10)

RECURSIVE Normalize(_, _)
Normalize(m, e) ==
    IF m = 0 THEN [m |-> 0, e |-> 0]
    ELSE IF m % 10 = 0 THEN Normalize(m \div 10, e + 1)
    ELSE [m |-> m, e |-> e]

Inf == [cls |-> "inf", neg |-> FALSE, m |-> 0, e |-> 0]
NegInf == [cls |-> "neg_inf", neg |-> TRUE, m |-> 0, e |-> 0]
NaN == [cls |-> "nan", neg |-> FALSE, m |-> 0, e |-> 0]

\* whether m * 10^e, of `digits` digits, is beyond f64::MAX = 1.797...e308
Overflows(m, e, digits) ==
    \/ e + digits - 1 > 308
    \/ /\ e + digits - 1 = 308
       /\ \/ digits = 1 /\ m >= 2
          \/ digits = 2 /\ m >= 18
          \/ digits = 3 /\ m >= 180

finite_at(neg, n, digits) ==
    IF n.m # 0 /\ Overflows(n.m, n.e, digits) THEN (IF neg THEN NegInf ELSE Inf)
    ELSE IF n.m # 0 /\ n.e + digits - 1 < -324
    THEN [cls |-> "finite", neg |-> neg, m |-> 0, e |-> 0]
    ELSE [cls |-> "finite", neg |-> neg, m |-> n.m, e |-> n.e]

finite_normal(neg, n) == finite_at(neg, n, NumDigits(n.m))

\* the f64 nearest to (-1)^neg * m * 10^e: overflow gives an infinity, underflow a zero
Finite(neg, m, e) == finite_normal(neg, Normalize(m, e))

\* `value as f64`
IntToDouble(v) == Finite(v < 0, IF v < 0 THEN -v ELSE v, 0)

i64_of(neg, sig) ==
    IF Len(sig) > 19
       \/ (Len(sig) = 19 /\ ~LexLeq(sig, IF neg THEN I64MinDigits ELSE I64MaxDigits))
    THEN Err("could not parse as int")
    ELSE [k |-> "Integer", v |-> (IF neg THEN -1 ELSE 1) * DigitsValue(sig)]

i64_digits(neg, ds) ==
    IF ds = << >> THEN Err("could not parse as int") ELSE i64_of(neg, StripZeros(ds))

\* <i64 as FromStr>::from_str on the scanned text (an optional '-' and digits)
parse_i64(num) ==
    IF num # << >> /\ Head(num) = 45 THEN i64_digits(TRUE, Tail(num))
    ELSE i64_digits(FALSE, num)

\* the text cut into the parts of a decimal literal:
\* '-'? digits* ('.' digits*)? ('e' sign? digits*)? rest
f64_exp_digits(p, expd, r) ==
    [p EXCEPT !.expd = expd, !.rest = SubSeq(r, Len(expd) + 1, Len(r))]

f64_exp_sign(p, r) ==
    IF r # << >> /\ Head(r) \in {43, 45}
    THEN f64_exp_digits([p EXCEPT !.expneg = (Head(r) = 45)], TakeDigits(Tail(r)), Tail(r))
    ELSE f64_exp_digits(p, TakeDigits(r), r)

f64_exp(p, r) ==
    IF r # << >> /\ Head(r) = 101 THEN f64_exp_sign([p EXCEPT !.hasexp = TRUE], Tail(r))
    ELSE [p EXCEPT !.rest = r]

f64_frac_digits(p, fracd, r) ==
    f64_exp([p EXCEPT !.fracd = fracd], SubSeq(r, Len(fracd) + 1, Len(r)))

f64_frac(p, r) ==
    IF r # << >> /\ Head(r) = 46 THEN f64_frac_digits(p, TakeDigits(Tail(r)), Tail(r))
    ELSE f64_exp(p, r)

f64_int_digits(neg, intd, body) ==
    f64_frac([neg |-> neg, intd |-> intd, fracd |-> << >>, hasexp |-> FALSE,
              expneg |-> FALSE, expd |-> << >>, rest |-> << >>],
             SubSeq(body, Len(intd) + 1, Len(body)))

f64_parts(num) ==
    IF num # << >> /\ Head(num) = 45 THEN f64_int_digits(TRUE, TakeDigits(Tail(num)), Tail(num))
    ELSE f64_int_digits(FALSE, TakeDigits(num), num)

f64_of_parts(p) ==
    IF (p.intd = << >> /\ p.fracd = << >>) \/ (p.hasexp /\ p.expd = << >>) \/ p.rest # << >>
    THEN Err("could not parse as double")
    ELSE [k |-> "Double",
          d |-> Finite(p.neg, DigitsValue(StripZeros(p.intd \o p.fracd)),
                       (IF p.expneg THEN -1 ELSE 1) * DigitsValue(p.expd) - Len(p.fracd))]

\* <f64 as FromStr>::from_str on the scanned text
parse_f64(num) == f64_of_parts(f64_parts(num))

----------------------------------------------------------------------------
(* Tokenizer::next_token *)

Tok(kind) == [k |-> kind]
TextTok(kind, s) == [k |-> kind, s |-> s]

\* the `;` comment loop: skip through the end of the line; eof: the input ended first
RECURSIVE skip_comment(_)
skip_comment_at(nb) ==
    IF nb.b = NoByte THEN [t |-> nb.t, eof |-> TRUE]
    ELSE IF nb.b = 10 THEN [t |-> nb.t, eof |-> FALSE]
    ELSE skip_comment(nb.t)

skip_comment(t) == skip_comment_at(next_byte(t))

\* the `#` loop
RECURSIVE scan_color(_, _)
scan_color_at(nb, color_str) ==
    IF nb.b = NoByte THEN [t |-> nb.t, r |-> None]
    ELSE IF IsHexDigit(nb.b) THEN scan_color(nb.t, Append(color_str, nb.b))
    ELSE [t |-> save_byte(nb.t, nb.b, "color"), r |-> TextTok("Color", color_str)]

scan_color(t, color_str) == scan_color_at(next_byte(t), color_str)

\* the string loop: escape sequences are kept, a line feed is skipped
RECURSIVE scan_string(_, _, _)
scan_string_at(nb, string, is_string_name) ==
    IF nb.b = NoByte THEN [t |-> nb.t, r |-> Err("unterminated string")]
    ELSE IF nb.b = 34
    THEN [t |-> nb.t,
          r |-> TextTok(IF is_string_name THEN "StringName" ELSE "String", string)]
    ELSE IF nb.b = 10 THEN scan_string(nb.t, string, is_string_name)
    ELSE scan_string(nb.t, Append(string, nb.b), is_string_name)

scan_string(t, string, is_string_name) ==
    scan_string_at(next_byte(t), string, is_string_name)

\* the `b'"' | b'@' | b'&'` arm after a `@` or `&`: a `"` must follow
scan_string_name(q) ==
    IF q.b # 34 THEN [t |-> q.t, r |-> Err("expected '\"' after '&'")]
    ELSE scan_string(q.t, << >>, TRUE)

\* a faulty step: the exponent takes a sign after its digits as well
number_step_any_sign(st, current) ==
    CASE st.reading = "Int" ->
            IF IsDigit(current) THEN st
            ELSE IF current = 46 THEN [st EXCEPT !.reading = "Dec", !.is_float = TRUE]
            ELSE IF current = 101 THEN [st EXCEPT !.reading = "Exp", !.is_float = TRUE]
            ELSE [st EXCEPT !.reading = "Done"]
      [] st.reading = "Dec" ->
            IF IsDigit(current) THEN st
            ELSE IF current = 101 THEN [st EXCEPT !.reading = "Exp", !.is_float = TRUE]
            ELSE [st EXCEPT !.reading = "Done"]
      [] st.reading = "Exp" ->
            IF IsDigit(current) THEN [st EXCEPT !.exp_begin = TRUE]
            ELSE IF current \in {45, 43} /\ ~st.exp_sign
            THEN [st EXCEPT !.exp_sign = TRUE]
            ELSE [st EXCEPT !.reading = "Done"]
      [] OTHER -> st

\* one step of `match reading`: the scanner's flags after seeing `current`
number_step(st, current) ==
    CASE st.reading = "Int" ->
            IF IsDigit(current) THEN st
            ELSE IF current = 46 THEN [st EXCEPT !.reading = "Dec", !.is_float = TRUE]
            ELSE IF current = 101 THEN [st EXCEPT !.reading = "Exp", !.is_float = TRUE]
            ELSE [st EXCEPT !.reading = "Done"]
      [] st.reading = "Dec" ->
            IF IsDigit(current) THEN st
            ELSE IF current = 101 THEN [st EXCEPT !.reading = "Exp", !.is_float = TRUE]
            ELSE [st EXCEPT !.reading = "Done"]
      [] st.reading = "Exp" ->
            IF IsDigit(current) THEN [st EXCEPT !.exp_begin = TRUE]
            ELSE IF current \in {45, 43} /\ ~st.exp_begin /\ ~st.exp_sign
            THEN [st EXCEPT !.exp_sign = TRUE]
            ELSE [st EXCEPT !.reading = "Done"]
      [] OTHER -> st

\* `while let Some(current) = next`
RECURSIVE scan_number(_)
scan_number_push(st, nb) ==
    scan_number([st EXCEPT !.num = Append(@, st.next), !.next = nb.b, !.t = nb.t])

scan_number_step(st1) ==
    IF st1.reading = "Done" THEN st1 ELSE scan_number_push(st1, next_byte(st1.t))

scan_number(st) ==
    IF st.next = NoByte THEN st ELSE scan_number_step(number_step(st, st.next))

\* after the loop: `self.saved = next`, then the text is parsed
number_token(st) ==
    [t |-> store_saved(st.t, st.next),
     r |-> IF st.is_float THEN parse_f64(st.num) ELSE parse_i64(st.num)]

\* the `b'-' | b'0'..=b'9'` arm: `first` is the first byte of the loop
read_number(first, num) ==
    number_token(scan_number([t |-> first.t, num |-> num, next |-> first.b,
                              reading |-> "Int", is_float |-> FALSE,
                              exp_begin |-> FALSE, exp_sign |-> FALSE]))

\* the identifier loop
RECURSIVE scan_identifier(_, _)
scan_identifier_at(nb, id) ==
    IF nb.b = NoByte THEN [t |-> nb.t, r |-> TextTok("Identifier", id)]
    ELSE IF IsAlphanumeric(nb.b) \/ nb.b = 95
    THEN scan_identifier(nb.t, Append(id, nb.b))
    ELSE [t |-> save_byte(nb.t, nb.b, "identifier"), r |-> TextTok("Identifier", id)]

scan_identifier(t, id) == scan_identifier_at(next_byte(t), id)

RECURSIVE next_token(_)
next_token_after_comment(sc) ==
    IF sc.eof THEN [t |-> sc.t, r |-> None] ELSE next_token(sc.t)

\* `match character`
next_token_at(nb) ==
    IF nb.b = NoByte THEN [t |-> nb.t, r |-> None]
    ELSE CASE nb.b = 123 -> [t |-> nb.t, r |-> Tok("CurlyBracketOpen")]
           [] nb.b = 125 -> [t |-> nb.t, r |-> Tok("CurlyBracketClose")]
           [] nb.b = 91 -> [t |-> nb.t, r |-> Tok("BracketOpen")]
           [] nb.b = 93 -> [t |-> nb.t, r |-> Tok("BracketClose")]
           [] nb.b = 40 -> [t |-> nb.t, r |-> Tok("ParenthesisOpen")]
           [] nb.b = 41 -> [t |-> nb.t, r |-> Tok("ParenthesisClose")]
           [] nb.b = 58 -> [t |-> nb.t, r |-> Tok("Colon")]
           [] nb.b = 59 -> next_token_after_comment(skip_comment(nb.t))
           [] nb.b = 44 -> [t |-> nb.t, r |-> Tok("Comma")]
           [] nb.b = 46 -> [t |-> nb.t, r |-> Tok("Period")]
           [] nb.b = 61 -> [t |-> nb.t, r |-> Tok("Equal")]
           [] nb.b = 35 -> scan_color(nb.t, <<35>>)
           [] nb.b = 34 -> scan_string(nb.t, << >>, FALSE)
           [] nb.b \in {64, 38} -> scan_string_name(next_byte(nb.t))
           [] nb.b = 45 -> read_number(next_byte(nb.t), <<45>>)
           [] IsDigit(nb.b) -> read_number(nb, << >>)
           [] IsAlphabetic(nb.b) \/ nb.b = 95 -> scan_identifier(nb.t, <<nb.b>>)
           [] nb.b <= 32 -> next_token(nb.t)
           [] OTHER -> [t |-> nb.t, r |-> Err("unexpected character")]

next_token(t) == next_token_at(next_byte(t))

----------------------------------------------------------------------------
(* The identifiers godot_file.rs compares against, as text *)

Lit ==
    [true |-> <<116,114,117,101>>,
     false |-> <<102,97,108,115,101>>,
     null |-> <<110,117,108,108>>,
     nil |-> <<110,105,108>>,
     inf |-> <<105,110,102>>,
     neg_inf |-> <<110,101,103,95,105,110,102>>,
     inf_neg |-> <<105,110,102,95,110,101,103>>,
     nan |-> <<110,97,110>>,
     Vector2i |-> <<86,101,99,116,111,114,50,105>>,
     Color |-> <<67,111,108,111,114>>,
     SubResource |-> <<83,117,98,82,101,115,111,117,114,99,101>>,
     ExtResource |-> <<69,120,116,82,101,115,111,117,114,99,101>>,
     format |-> <<102,111,114,109,97,116>>]

----------------------------------------------------------------------------
(* enum Value, Value::parse *)

BoolV(b) == [k |-> "Bool", b |-> b]
NullV == [k |-> "Null"]
IntegerV(v) == [k |-> "Integer", v |-> v]
DoubleV(d) == [k |-> "Double", d |-> d]
StringV(s) == [k |-> "String", s |-> s]
StringNameV(s) == [k |-> "StringName", s |-> s]
ColorHtmlV(s) == [k |-> "Color", c |-> [k |-> "Html", s |-> s]]
ColorRgbaV(r, g, b, a) == [k |-> "Color", c |-> [k |-> "Rgba", rgba |-> <<r, g, b, a>>]]
Vector2iV(x, y) == [k |-> "Vector2i", x |-> x, y |-> y]
SubResourceV(s) == [k |-> "SubResource", s |-> s]
ExtResourceV(s) == [k |-> "ExtResource", s |-> s]

\* `match tokens.next_token()? { Some(<kind>) => then, Some(token) => bail!(msg),
\* None => bail!(msg) }`: an error of the tokenizer is handed on
Expect(tk, kind, msg, then) ==
    IF tk.r.k = "Err" THEN tk
    ELSE IF tk.r.k # kind THEN [t |-> tk.t, r |-> Err(msg)]
    ELSE then

\* the loop of parse_int_constructor; the result is Some(args) or an error
RECURSIVE int_constructor_loop(_, _)
int_constructor_value(tk, args) ==
    IF tk.r.k = "Err" THEN tk
    ELSE IF tk.r.k = "Integer" THEN int_constructor_loop(tk.t, Append(args, tk.r.v))
    ELSE IF tk.r.k = "ParenthesisClose" /\ args = << >> THEN [t |-> tk.t, r |-> Some(args)]
    ELSE [t |-> tk.t, r |-> Err("expected integer")]

int_constructor_separator(sep, args) ==
    IF sep.r.k = "Err" THEN sep
    ELSE IF sep.r.k = "ParenthesisClose" THEN [t |-> sep.t, r |-> Some(args)]
    ELSE IF sep.r.k # "Comma" THEN [t |-> sep.t, r |-> Err("expected ',' or ')'")]
    ELSE int_constructor_value(next_token(sep.t), args)

int_constructor_loop(t, args) ==
    IF args # << >> THEN int_constructor_separator(next_token(t), args)
    ELSE int_constructor_value(next_token(t), args)

int_constructor_open(open) ==
    Expect(open, "ParenthesisOpen", "expected '('", int_constructor_loop(open.t, << >>))

parse_int_constructor(t) == int_constructor_open(next_token(t))

\* the loop of parse_double_constructor: an integer argument is widened
RECURSIVE double_constructor_loop(_, _)
double_constructor_value(tk, args) ==
    IF tk.r.k = "Err" THEN tk
    ELSE IF tk.r.k = "Integer"
    THEN double_constructor_loop(tk.t, Append(args, IntToDouble(tk.r.v)))
    ELSE IF tk.r.k = "Double" THEN double_constructor_loop(tk.t, Append(args, tk.r.d))
    ELSE IF tk.r.k = "ParenthesisClose" /\ args = << >> THEN [t |-> tk.t, r |-> Some(args)]
    ELSE [t |-> tk.t, r |-> Err("expected float")]

double_constructor_separator(sep, args) ==
    IF sep.r.k = "Err" THEN sep
    ELSE IF sep.r.k = "ParenthesisClose" THEN [t |-> sep.t, r |-> Some(args)]
    ELSE IF sep.r.k # "Comma" THEN [t |-> sep.t, r |-> Err("expected ',' or ')'")]
    ELSE double_constructor_value(next_token(sep.t), args)

double_constructor_loop(t, args) ==
    IF args # << >> THEN double_constructor_separator(next_token(t), args)
    ELSE double_constructor_value(next_token(t), args)

double_constructor_open(open) ==
    Expect(open, "ParenthesisOpen", "expected '('", double_constructor_loop(open.t, << >>))

parse_double_constructor(t) == double_constructor_open(next_token(t))

\* the "SubResource" and "ExtResource" arms: `(` string `)`
resource_reference_close(close, kind, id) ==
    Expect(close, "ParenthesisClose", "expected ')'",
           [t |-> close.t, r |-> [k |-> kind, s |-> id]])

resource_reference_arg(arg, kind) ==
    Expect(arg, "String", "expected a string argument",
           resource_reference_close(next_token(arg.t), kind, arg.r.s))

resource_reference_open(open, kind) ==
    Expect(open, "ParenthesisOpen", "expected '('",
           resource_reference_arg(next_token(open.t), kind))

parse_resource_reference(t, kind) == resource_reference_open(next_token(t), kind)

\* the "Vector2i" arm
vector2i_of(args) ==
    IF args.r.k = "Err" THEN args
    ELSE IF Len(args.r.v) # 2 THEN [t |-> args.t, r |-> Err("Vector2i requires 2 arguments")]
    ELSE [t |-> args.t, r |-> Vector2iV(args.r.v[1], args.r.v[2])]

\* a faulty "Color" arm: arguments after the fourth are ignored
color_of_first_four(args) ==
    IF args.r.k = "Err" THEN args
    ELSE IF Len(args.r.v) < 4 THEN [t |-> args.t, r |-> Err("Color requires 4 arguments")]
    ELSE [t |-> args.t,
          r |-> ColorRgbaV(args.r.v[1], args.r.v[2], args.r.v[3], args.r.v[4])]

\* the "Color" arm
color_of(args) ==
    IF args.r.k = "Err" THEN args
    ELSE IF Len(args.r.v) # 4 THEN [t |-> args.t, r |-> Err("Color requires 4 arguments")]
    ELSE [t |-> args.t,
          r |-> ColorRgbaV(args.r.v[1], args.r.v[2], args.r.v[3], args.r.v[4])]

\* `match &*id`
value_of_identifier(t, id) ==
    CASE id = Lit.true -> [t |-> t, r |-> BoolV(TRUE)]
      [] id = Lit.false -> [t |-> t, r |-> BoolV(FALSE)]
      [] id \in {Lit.null, Lit.nil} -> [t |-> t, r |-> NullV]
      [] id = Lit.inf -> [t |-> t, r |-> DoubleV(Inf)]
      [] id = Lit.neg_inf -> [t |-> t, r |-> DoubleV(NegInf)]
      [] id = Lit.nan -> [t |-> t, r |-> DoubleV(NaN)]
      [] id = Lit.Vector2i -> vector2i_of(parse_int_constructor(t))
      [] id = Lit.Color -> color_of(parse_double_constructor(t))
      [] id = Lit.SubResource -> parse_resource_reference(t, "SubResource")
      [] id = Lit.ExtResource -> parse_resource_reference(t, "ExtResource")
      [] OTHER -> [t |-> t, r |-> Err("unsupported or unexpected value identifier")]

\* `match tokens.next_token()?`
value_of_token(tk) ==
    CASE tk.r.k = "Err" -> tk
      [] tk.r.k = "Identifier" -> value_of_identifier(tk.t, tk.r.s)
      [] tk.r.k = "Integer" -> [t |-> tk.t, r |-> IntegerV(tk.r.v)]
      [] tk.r.k = "Double" -> [t |-> tk.t, r |-> DoubleV(tk.r.d)]
      [] tk.r.k = "String" -> [t |-> tk.t, r |-> StringV(tk.r.s)]
      [] tk.r.k = "StringName" -> [t |-> tk.t, r |-> StringNameV(tk.r.s)]
      [] tk.r.k = "Color" -> [t |-> tk.t, r |-> ColorHtmlV(tk.r.s)]
      [] tk.r.k = "None" -> [t |-> tk.t, r |-> Err("expected a value, but found end of file")]
      [] OTHER -> [t |-> tk.t, r |-> Err("unsupported or unexpected value token")]

Value_parse(t) == value_of_token(next_token(t))

----------------------------------------------------------------------------
(* struct Tag { name, fields, assigns }, Tag::parse *)

Tag(name, fields, assigns) == [name |-> name, fields |-> fields, assigns |-> assigns]
Field(identifier, value) == [identifier |-> identifier, value |-> value]
TagAssign(assign, value) == [assign |-> assign, value |-> value]

RECURSIVE tag_loop(_, _, _, _)
\* the end of an iteration: the field's value has been parsed
tag_field_value(value, name, fields, identifier, parsing_tag) ==
    IF value.r.k = "Err" THEN value
    ELSE tag_loop(value.t, name, Append(fields, Field(identifier, value.r)), parsing_tag)

\* a field: `=` and a value must follow the identifier
tag_field_equal(eq, name, fields, identifier, parsing_tag) ==
    Expect(eq, "Equal", "expected '='",
           tag_field_value(Value_parse(eq.t), name, fields, identifier, parsing_tag))

\* `let Token::Identifier(identifier) = token else { bail!(..) }` and what follows;
\* name and parsing_tag are as the `if parsing_tag && ..` chain before it left them
tag_identifier(tk, name, fields, parsing_tag) ==
    IF tk.r.k # "Identifier" THEN [t |-> tk.t, r |-> Err("expected an identifier")]
    ELSE IF parsing_tag THEN tag_loop(tk.t, name \o tk.r.s, fields, parsing_tag)
    ELSE tag_field_equal(next_token(tk.t), name, fields, tk.r.s, parsing_tag)

\* a faulty iteration: the end of input closes the tag
tag_token_closed_by_end(tk, name, fields, parsing_tag) ==
    IF tk.r.k = "Err" THEN tk
    ELSE IF tk.r.k \in {"BracketClose", "None"}
    THEN [t |-> tk.t, r |-> Some(Tag(name, fields, << >>))]
    ELSE IF parsing_tag /\ tk.r.k = "Period"
    THEN tag_identifier(tk, Append(name, 46), fields, parsing_tag)
    ELSE IF parsing_tag /\ tk.r.k = "Colon"
    THEN tag_identifier(tk, Append(name, 58), fields, parsing_tag)
    ELSE tag_identifier(tk, name, fields, FALSE)

\* one iteration of the `loop` of Tag::parse, on its token
tag_token(tk, name, fields, parsing_tag) ==
    IF tk.r.k = "Err" THEN tk
    ELSE IF tk.r.k = "BracketClose" THEN [t |-> tk.t, r |-> Some(Tag(name, fields, << >>))]
    ELSE IF tk.r.k = "None"
    THEN [t |-> tk.t, r |-> Err("unexpected end of file while parsing tag")]
    ELSE IF parsing_tag /\ tk.r.k = "Period"
    THEN tag_identifier(tk, Append(name, 46), fields, parsing_tag)
    ELSE IF parsing_tag /\ tk.r.k = "Colon"
    THEN tag_identifier(tk, Append(name, 58), fields, parsing_tag)
    ELSE tag_identifier(tk, name, fields, FALSE)

tag_loop(t, name, fields, parsing_tag) == tag_token(next_token(t), name, fields, parsing_tag)

tag_name(id) ==
    IF id.r.k = "Err" THEN id
    ELSE IF id.r.k # "Identifier"
    THEN [t |-> id.t, r |-> Err("expected identifier (tag name)")]
    ELSE tag_loop(id.t, id.r.s, << >>, TRUE)

tag_open(open) ==
    IF open.r.k = "Err" THEN open
    ELSE IF open.r.k = "None" THEN open
    ELSE IF open.r.k # "BracketOpen" THEN [t |-> open.t, r |-> Err("unexpected token")]
    ELSE tag_name(next_token(open.t))

Tag_parse(t) == tag_open(next_token(t))

----------------------------------------------------------------------------
(* TagAssign::parse *)

RECURSIVE assign_loop(_, _)
assign_after_comment(sc, what) ==
    IF sc.eof THEN [t |-> sc.t, r |-> None] ELSE assign_loop(sc.t, what)

\* the `b'"'` arm: the quote is pushed back and a string token replaces the path
assign_quoted(tk) ==
    Expect(tk, "String", "expected a quoted string", assign_loop(tk.t, tk.r.s))

\* the `b'='` arm
assign_value(value, what) ==
    IF value.r.k = "Err" THEN value
    ELSE [t |-> value.t, r |-> Some(TagAssign(what, value.r))]

\* a faulty `match character`: the `[` that ends the assigns is not pushed back
assign_at_bracket_consumed(nb, what) ==
    IF nb.b = NoByte THEN [t |-> nb.t, r |-> None]
    ELSE CASE nb.b = 59 -> assign_after_comment(skip_comment(nb.t), what)
           [] nb.b = 91 /\ what = << >> -> [t |-> nb.t, r |-> None]
           [] nb.b = 34 -> assign_quoted(next_token(save_byte(nb.t, 34, "assign_quote")))
           [] nb.b = 61 -> assign_value(Value_parse(nb.t), what)
           [] nb.b <= 32 -> assign_loop(nb.t, what)
           [] OTHER -> assign_loop(nb.t, Append(what, nb.b))

\* `match character`
assign_at(nb, what) ==
    IF nb.b = NoByte THEN [t |-> nb.t, r |-> None]
    ELSE CASE nb.b = 59 -> assign_after_comment(skip_comment(nb.t), what)
           [] nb.b = 91 /\ what = << >> ->
                [t |-> save_byte(nb.t, nb.b, "assign_bracket"), r |-> None]
           [] nb.b = 34 -> assign_quoted(next_token(save_byte(nb.t, 34, "assign_quote")))
           [] nb.b = 61 -> assign_value(Value_parse(nb.t), what)
           [] nb.b <= 32 -> assign_loop(nb.t, what)
           [] OTHER -> assign_loop(nb.t, Append(what, nb.b))

assign_loop(t, what) == assign_at(next_byte(t), what)

TagAssign_parse(t) == assign_loop(t, << >>)

----------------------------------------------------------------------------
(* parse_file: the header tag, then the loop over the body tags and, for   *)
(* each, over its assigns.  One action per call of Tag::parse or           *)
(* TagAssign::parse, with what parse_file does with the result.            *)

NoTag == Tag(<< >>, << >>, << >>)
GodotFile(h, ts) == [header |-> h, tags |-> ts]
NoFile == GodotFile(NoTag, << >>)
NoResource == [k |-> "None"]
NoConfig == [k |-> "None"]
NoCall == [fn |-> "", input |-> << >>, r |-> None]
\* no File::create yet
NoWriter == [created |-> FALSE, bytes |-> << >>]
\* no function is called on its own
NoCalls ==
    /\ tile_call = None /\ fmt_call = None /\ run_call = None
    /\ image_call = None /\ parse_call = None

\* the bytes a tokenizer has not consumed: the pushback slot, then the stream
Unread(t) == (IF t.saved # NoByte THEN <<t.saved>> ELSE << >>) \o t.bytes

\* .iter().find(|field| field.identifier == identifier): the index of the first, or 0
find_field(fields, identifier) ==
    IF \E i \in 1..Len(fields) : fields[i].identifier = identifier
    THEN CHOOSE i \in 1..Len(fields) :
            /\ fields[i].identifier = identifier
            /\ \A j \in 1..(i - 1) : fields[j].identifier # identifier
    ELSE 0

\* a faulty gate: any integer is taken for the supported version
format_field_any_integer(h, i) == i = 0 \/ h.fields[i].value.k = "Integer"

format_field_accepted(h, i) == i = 0 \/ h.fields[i].value = IntegerV(FORMAT_VERSION)

\* the version gate of parse_file
format_accepted(h) == format_field_accepted(h, find_field(h.fields, Lit.format))

\* what parse_file does with the header tag
header_parsed(p) ==
    /\ tokens' = p.t
    /\ last' = [fn |-> "Tag::parse", input |-> Unread(tokens), r |-> p.r]
    /\ header' = IF p.r.k = "Some" THEN p.r.v ELSE header
    /\ IF p.r.k = "Err"
       THEN pc' = "failed" /\ error' = "could not parse header tag"
       ELSE IF p.r.k = "None"
       THEN pc' = "failed" /\ error' = "unexpected empty file"
       ELSE IF ~format_accepted(p.r.v)
       THEN pc' = "failed" /\ error' = "unexpected format version"
       ELSE pc' = "tag" /\ error' = error

ParseHeader ==
    /\ pc = "header"
    /\ header_parsed(Tag_parse(tokens))
    /\ UNCHANGED <<tags, cur, file, resource, config, out, writer, rewritten,
                   call_vars>>

\* what the `while let` of parse_file does with a body tag
tag_parsed(p) ==
    /\ tokens' = p.t
    /\ last' = [fn |-> "Tag::parse", input |-> Unread(tokens), r |-> p.r]
    /\ cur' = IF p.r.k = "Some" THEN p.r.v ELSE cur
    /\ IF p.r.k = "Err"
       THEN pc' = "failed" /\ error' = "could not parse tag" /\ file' = file
       ELSE IF p.r.k = "None"
       THEN pc' = "parsed" /\ error' = error /\ file' = GodotFile(header, tags)
       ELSE pc' = "assign" /\ error' = error /\ file' = file

ParseTag ==
    /\ pc = "tag"
    /\ tag_parsed(Tag_parse(tokens))
    /\ UNCHANGED <<header, tags, resource, config, out, writer, rewritten, call_vars>>

\* what the inner `while let` of parse_file does with an assign
assign_parsed(p) ==
    /\ tokens' = p.t
    /\ last' = [fn |-> "TagAssign::parse", input |-> Unread(tokens), r |-> p.r]
    /\ IF p.r.k = "Err"
       THEN pc' = "failed" /\ error' = "could not parse tag assign"
            /\ UNCHANGED <<cur, tags>>
       ELSE IF p.r.k = "None"
       THEN pc' = "tag" /\ tags' = Append(tags, cur) /\ cur' = NoTag
            /\ error' = error
       ELSE pc' = "assign" /\ cur' = [cur EXCEPT !.assigns = Append(@, p.r.v)]
            /\ UNCHANGED <<tags, error>>

ParseAssign ==
    /\ pc = "assign"
    /\ assign_parsed(TagAssign_parse(tokens))
    /\ UNCHANGED <<header, file, resource, config, out, writer, rewritten, call_vars>>

----------------------------------------------------------------------------
(* impl GodotFmt for i64.  The renderer works on the full width of an i64, *)
(* so the integer it is given is a sign and a magnitude of five 15-bit     *)
(* limbs, most significant first: (-1)^neg * sum(mag[i] * 32768^(5-i)).    *)
(* i64::MIN is I64(TRUE, <<8,0,0,0,0>>), i64::MAX is                        *)
(* I64(FALSE, <<7,32767,32767,32767,32767>>).                              *)

I64(neg, mag) == [neg |-> neg, mag |-> mag]

\* `value as i64` of a value that fits 31 bits
I64_from(v) ==
    I64(v < 0,
        <<0, 0, (IF v < 0 THEN -v ELSE v) \div (32768 * 32768),
          ((IF v < 0 THEN -v ELSE v) \div 32768) % 32768,
          (IF v < 0 THEN -v ELSE v) % 32768>>)

IsZero(n) == \A i \in 1..Len(n.mag) : n.mag[i] = 0

\* long division of a magnitude by a small divisor: the quotient limbs and the remainder
mag_cons(limb, rest) == [q |-> <<limb>> \o rest.q, r |-> rest.r]

RECURSIVE mag_divrem(_, _, _)
mag_divrem(mag, d, rem) ==
    IF mag = << >> THEN [q |-> << >>, r |-> rem]
    ELSE mag_cons((rem * 32768 + Head(mag)) \div d,
                  mag_divrem(Tail(mag), d, (rem * 32768 + Head(mag)) % d))

\* `n / d` of Rust: the quotient truncated towards zero
i64_div(n, d) == I64(n.neg /\ mag_divrem(n.mag, d, 0).q # <<0, 0, 0, 0, 0>>,
                     mag_divrem(n.mag, d, 0).q)

\* `n % d` of Rust: the remainder has the sign of n
i64_rem(n, d) == (IF n.neg THEN -1 ELSE 1) * mag_divrem(n.mag, d, 0).r

\* the first loop: `n /= BASE; chars += 1; if n == 0 { break }`
RECURSIVE count_chars(_, _)
count_chars(n, chars) ==
    IF IsZero(i64_div(n, 10)) THEN chars + 1 ELSE count_chars(i64_div(n, 10), chars + 1)

\* a faulty digit: the remainder is cast to u8 without `.abs()`
modulus_without_abs(n) == i64_rem(n, 10) % 256

\* `(n % BASE).abs() as u8`
modulus(n) == IF i64_rem(n, 10) < 0 THEN -i64_rem(n, 10) ELSE i64_rem(n, 10)

\* `if modulus >= 10 { a + (modulus - 10) } else { b'0' + modulus }`, in u8
\* arithmetic: the byte, and whether the addition overflows
digit_byte(m) == IF m >= 10 THEN (97 + (m - 10)) % 256 ELSE 48 + m
digit_overflows(m) == m >= 10 /\ 97 + (m - 10) > 255

\* `string[index] = byte`: an index out of range panics
store_byte(run, index, byte) ==
    IF index < 0 \/ index >= Len(run.bytes) THEN [run EXCEPT !.panicked = TRUE]
    ELSE [run EXCEPT !.bytes[index + 1] = byte]

\* `string[chars] = <the digit of modulus>`
store_digit(run, index, m) ==
    store_byte([run EXCEPT !.overflowed = @ \/ digit_overflows(m)], index, digit_byte(m))

\* the second loop: `chars -= 1; string[chars] = ..; n /= BASE; if n == 0 { break }`
RECURSIVE fill_digits(_, _, _)
fill_digits(n, run, chars) ==
    IF run.panicked THEN run
    ELSE IF IsZero(i64_div(n, 10)) THEN store_digit(run, chars - 1, modulus(n))
    ELSE fill_digits(i64_div(n, 10), store_digit(run, chars - 1, modulus(n)), chars - 1)

\* `if sign { string[0] = b'-' }`
fill_sign(n, run) == IF n.neg /\ ~run.panicked THEN store_byte(run, 0, 45) ELSE run

\* `vec![b' '; chars]`, then the digits and the sign
i64_fmt_chars(n, chars) ==
    fill_sign(n, fill_digits(n, [bytes |-> [i \in 1..chars |-> 32], panicked |-> FALSE,
                                    overflowed |-> FALSE], chars))

\* the run of <i64 as GodotFmt>::godot_fmt: the bytes handed to write_all,
\* whether an index was out of range and whether a u8 addition overflowed on
\* the way (`n / BASE` and `(n % BASE).abs()` cannot overflow: the divisor is
\* 10 and the remainder lies in -9..9)
i64_godot_fmt_run(n) == i64_fmt_chars(n, count_chars(n, 0) + (IF n.neg THEN 1 ELSE 0))

\* <i64 as GodotFmt>::godot_fmt: the bytes written
i64_godot_fmt(n) == i64_godot_fmt_run(n).bytes

----------------------------------------------------------------------------
(* impl GodotFmt for f64, Vector2i, Color and Value *)

\* Display of an unsigned integer, as the format! calls print x, y and indexes
\* (and as ryu prints the digits and the exponent)
RECURSIVE ToDecimal(_)
ToDecimal(n) == IF n < 10 THEN <<48 + n>> ELSE ToDecimal(n \div 10) \o <<48 + (n % 10)>>

Zeros(n) == [i \in 1..n |-> 48]

\* ryu's exponent: an optional '-' and the digits
ryu_exponent(x) == IF x < 0 THEN <<45>> \o ToDecimal(-x) ELSE ToDecimal(x)

\* ryu::Buffer::format_finite of a non-zero double whose shortest digits are
\* `digits` with the decimal exponent k: kk is the position of the decimal point
ryu_digits(digits, k, kk) ==
    IF 0 <= k /\ kk <= 16 THEN digits \o Zeros(k) \o <<46, 48>>
    ELSE IF 0 < kk /\ kk <= 16
    THEN SubSeq(digits, 1, kk) \o <<46>> \o SubSeq(digits, kk + 1, Len(digits))
    ELSE IF -5 < kk /\ kk <= 0 THEN <<48, 46>> \o Zeros(-kk) \o digits
    ELSE IF Len(digits) = 1 THEN digits \o <<101>> \o ryu_exponent(kk - 1)
    ELSE <<Head(digits), 46>> \o Tail(digits) \o <<101>> \o ryu_exponent(kk - 1)

format_finite(d) ==
    (IF d.neg THEN <<45>> ELSE << >>)
        \o ryu_digits(ToDecimal(d.m), d.e, Len(ToDecimal(d.m)) + d.e)

\* str::trim_end_matches(".0"): the suffix is removed as often as it matches
RECURSIVE trim_end_matches_dot0(_)
trim_end_matches_dot0(s) ==
    IF Len(s) >= 2 /\ SubSeq(s, Len(s) - 1, Len(s)) = <<46, 48>>
    THEN trim_end_matches_dot0(SubSeq(s, 1, Len(s) - 2))
    ELSE s

\* a faulty renderer: ryu's text is written as it is
f64_godot_fmt_untrimmed(d) ==
    IF d.cls = "finite" /\ d.m = 0 THEN <<48>>
    ELSE IF d.cls = "nan" THEN Lit.nan
    ELSE IF d.cls = "inf" THEN Lit.inf
    ELSE IF d.cls = "neg_inf" THEN Lit.neg_inf
    ELSE format_finite(d)

\* <f64 as GodotFmt>::godot_fmt
f64_godot_fmt(d) ==
    IF d.cls = "finite" /\ d.m = 0 THEN <<48>>
    ELSE IF d.cls = "nan" THEN Lit.nan
    ELSE IF d.cls = "inf" THEN Lit.inf
    ELSE IF d.cls = "neg_inf" THEN Lit.neg_inf
    ELSE trim_end_matches_dot0(format_finite(d))

Contains(s, byte) == \E i \in 1..Len(s) : s[i] = byte

\* the Value::Double arm: ".0" is appended to a text that is none of b"inf",
\* b"inf_neg", b"nan" and has neither '.' nor 'e'
double_with_point(string) ==
    IF string # Lit.inf /\ string # Lit.inf_neg /\ string # Lit.nan
       /\ ~Contains(string, 46) /\ ~Contains(string, 101)
    THEN string \o <<46, 48>>
    ELSE string

\* `write!(w, "{}", string)`: a String is written in UTF-8, a char below
\* U+0080 as one byte, below U+0800 as two, below U+10000 as three
utf8_char(c) ==
    IF c < 128 THEN <<c>>
    ELSE IF c < 2048 THEN <<192 + (c \div 64), 128 + (c % 64)>>
    ELSE <<224 + (c \div 4096), 128 + ((c \div 64) % 64), 128 + (c % 64)>>

RECURSIVE utf8_from(_, _)
utf8_from(string, i) ==
    IF i > Len(string) THEN << >> ELSE utf8_char(string[i]) \o utf8_from(string, i + 1)

utf8(string) == IF \A i \in 1..Len(string) : string[i] < 128 THEN string ELSE utf8_from(string, 1)

\* <Vector2i as GodotFmt>::godot_fmt
vector2i_godot_fmt(x, y) ==
    Lit.Vector2i \o <<40>> \o i64_godot_fmt(I64_from(x)) \o <<44, 32>>
        \o i64_godot_fmt(I64_from(y)) \o <<41>>

\* <Color as GodotFmt>::godot_fmt
color_godot_fmt(c) ==
    IF c.k = "Html" THEN utf8(c.s)
    ELSE Lit.Color \o <<40>> \o f64_godot_fmt(c.rgba[1]) \o <<44, 32>>
            \o f64_godot_fmt(c.rgba[2]) \o <<44, 32>> \o f64_godot_fmt(c.rgba[3])
            \o <<44, 32>> \o f64_godot_fmt(c.rgba[4]) \o <<41>>

\* <Value as GodotFmt>::godot_fmt
value_godot_fmt(value) ==
    CASE value.k = "Null" -> Lit.null
      [] value.k = "Bool" -> (IF value.b THEN Lit.true ELSE Lit.false)
      [] value.k = "Integer" -> i64_godot_fmt(I64_from(value.v))
      [] value.k = "Double" -> double_with_point(f64_godot_fmt(value.d))
      [] value.k = "String" -> <<34>> \o utf8(value.s) \o <<34>>
      [] value.k = "StringName" -> <<38, 34>> \o utf8(value.s) \o <<34>>
      [] value.k = "Color" -> color_godot_fmt(value.c)
      [] value.k = "Vector2i" -> vector2i_godot_fmt(value.x, value.y)
      [] value.k = "SubResource" -> Lit.SubResource \o <<40, 34>> \o utf8(value.s) \o <<34, 41>>
      [] value.k = "ExtResource" -> Lit.ExtResource \o <<40, 34>> \o utf8(value.s) \o <<34, 41>>

----------------------------------------------------------------------------
(* impl GodotFmt for Tag, struct GodotWriter *)

\* `for field in &self.fields { write!(w, " {}=", field.identifier)?; field.value.godot_fmt(w)? }`
RECURSIVE fields_godot_fmt(_)
fields_godot_fmt(fields) ==
    IF fields = << >> THEN << >>
    ELSE <<32>> \o utf8(Head(fields).identifier) \o <<61>> \o value_godot_fmt(Head(fields).value)
            \o fields_godot_fmt(Tail(fields))

\* `for assign in &self.assigns { write!(w, "{} = ", assign.assign)?; ..; writeln!(w, "")? }`
RECURSIVE assigns_godot_fmt(_)
assigns_godot_fmt(assigns) ==
    IF assigns = << >> THEN << >>
    ELSE utf8(Head(assigns).assign) \o <<32, 61, 32>> \o value_godot_fmt(Head(assigns).value)
            \o <<10>> \o assigns_godot_fmt(Tail(assigns))

\* <Tag as GodotFmt>::godot_fmt
tag_godot_fmt(tag) ==
    <<91>> \o utf8(tag.name) \o fields_godot_fmt(tag.fields) \o <<93, 10>>
        \o assigns_godot_fmt(tag.assigns)

\* GodotWriter::begin: the header is written at once
GodotWriter_begin(header_tag) == tag_godot_fmt(header_tag)

\* a faulty write_tag: no empty line before the tag
write_tag_without_empty_line(w, tag) == w \o tag_godot_fmt(tag)

\* GodotWriter::write_tag, on the bytes written so far
GodotWriter_write_tag(w, tag) == w \o <<10>> \o tag_godot_fmt(tag)

\* write_tag called for each tag in turn
RECURSIVE write_tags(_, _)
write_tags(w, tag_list) ==
    IF tag_list = << >> THEN w
    ELSE write_tags(GodotWriter_write_tag(w, Head(tag_list)), Tail(tag_list))

\* `GodotWriter::begin(.., &header)?` and a `writer.write_tag(..)?` for each tag
write_document(h, tag_list) == write_tags(GodotWriter_begin(h), tag_list)

----------------------------------------------------------------------------
(* The documents parse_file is run on *)

SeqsUpTo(S, n) == UNION {[1..k -> S] : k \in 0..n}

RECURSIVE Flatten(_)
Flatten(ss) == IF ss = << >> THEN << >> ELSE Head(ss) \o Flatten(Tail(ss))

\* the bytes of raw inputs: [ ] a e = 1 " # - ; LF space .
RawAlphabet == {91, 93, 97, 101, 61, 49, 34, 35, 45, 59, 10, 32, 46}

\* what a raw input starts with: nothing, `[h][t]`, `[h][t]x=`
RawPrefixes == {<< >>, <<91,104,93,91,116,93>>, <<91,104,93,91,116,93,120,61>>}

\* the pieces of a generated tag header, after its `[`
HeadFrags ==
    {
     <<97>>,   \* 'a'
     <<46>>,   \* '.'
     <<58>>,   \* ':'
     <<32,98>>,   \* ' b'
     <<61>>,   \* '='
     <<49>>,   \* '1'
     <<32,99,61,49>>   \* ' c=1'
    }

\* the pieces of a generated body, after `[h][t]`
BodyFrags ==
    {
     <<112>>,   \* 'p'
     <<61>>,   \* '='
     <<49>>,   \* '1'
     <<10>>,   \* 'LF'
     <<91,117,93>>,   \* '[u]'
     <<34,113,34>>,   \* '"q"'
     <<91>>,   \* '['
     <<59>>,   \* ';'
     <<51,32,113>>   \* '3 q'
    }

\* the fields of a generated header tag, after `[h`
HeaderFields ==
    {
     <<32,102,111,114,109,97,116,61,50>>,   \* ' format=2'
     <<32,102,111,114,109,97,116,61,51>>,   \* ' format=3'
     <<32,102,111,114,109,97,116,61,51,46,48>>,   \* ' format=3.0'
     <<32,102,111,114,109,97,116,61,34,51,34>>,   \* ' format="3"'
     <<32,99,61,49>>   \* ' c=1'
    }

RawInputs == {pre \o raw : pre \in RawPrefixes, raw \in SeqsUpTo(RawAlphabet, MaxRaw)}

HeadInputs ==
    {<<91>> \o Flatten(fs) \o tail :
        fs \in SeqsUpTo(HeadFrags, MaxHeadFrags), tail \in {<< >>, <<93>>}}

BodyInputs ==
    {<<91,104,93,91,116,93>> \o Flatten(fs) : fs \in SeqsUpTo(BodyFrags, MaxBodyFrags)}

FormatInputs ==
    {<<91,104>> \o Flatten(fs) \o <<93>> \o tail :
        fs \in SeqsUpTo(HeaderFields, MaxHeaderFields),
        tail \in {<< >>, <<91,116,93,112,61,49>>}}

----------------------------------------------------------------------------
(* The string literals of resource.rs and main.rs, as text.  sources_0 is  *)
(* "sources/0", res_scheme "res://", slash_0 "/0"; terrain_set .. color    *)
(* are the path pieces of the format! calls, with their leading slash.     *)

Res ==
    [gd_resource |-> <<103,100,95,114,101,115,111,117,114,99,101>>,
     ext_resource |-> <<101,120,116,95,114,101,115,111,117,114,99,101>>,
     sub_resource |-> <<115,117,98,95,114,101,115,111,117,114,99,101>>,
     resource |-> <<114,101,115,111,117,114,99,101>>,
     uid |-> <<117,105,100>>,
     type |-> <<116,121,112,101>>,
     path |-> <<112,97,116,104>>,
     id |-> <<105,100>>,
     texture |-> <<116,101,120,116,117,114,101>>,
     Texture2D |-> <<84,101,120,116,117,114,101,50,68>>,
     TileSetAtlasSource |-> <<84,105,108,101,83,101,116,65,116,108,97,115,83,111,117,114,99,101>>,
     TileSet |-> <<84,105,108,101,83,101,116>>,
     load_steps |-> <<108,111,97,100,95,115,116,101,112,115>>,
     format |-> <<102,111,114,109,97,116>>,
     texture_region_size |-> <<116,101,120,116,117,114,101,95,114,101,103,105,111,110,95,115,105,122,101>>,
     tile_shape |-> <<116,105,108,101,95,115,104,97,112,101>>,
     tile_offset_axis |-> <<116,105,108,101,95,111,102,102,115,101,116,95,97,120,105,115>>,
     tile_size |-> <<116,105,108,101,95,115,105,122,101>>,
     sources_0 |-> <<115,111,117,114,99,101,115,47,48>>,
     res_scheme |-> <<114,101,115,58,47,47>>,
     slash_0 |-> <<47,48>>,
     terrain_set |-> <<47,116,101,114,114,97,105,110,95,115,101,116>>,
     terrain |-> <<47,116,101,114,114,97,105,110>>,
     bottom_right_side |-> <<47,116,101,114,114,97,105,110,115,95,112,101,101,114,105,110,103,95,98,105,116,47,98,111,116,116,111,109,95,114,105,103,104,116,95,115,105,100,101>>,
     bottom_side |-> <<47,116,101,114,114,97,105,110,115,95,112,101,101,114,105,110,103,95,98,105,116,47,98,111,116,116,111,109,95,115,105,100,101>>,
     bottom_left_side |-> <<47,116,101,114,114,97,105,110,115,95,112,101,101,114,105,110,103,95,98,105,116,47,98,111,116,116,111,109,95,108,101,102,116,95,115,105,100,101>>,
     top_left_side |-> <<47,116,101,114,114,97,105,110,115,95,112,101,101,114,105,110,103,95,98,105,116,47,116,111,112,95,108,101,102,116,95,115,105,100,101>>,
     top_side |-> <<47,116,101,114,114,97,105,110,115,95,112,101,101,114,105,110,103,95,98,105,116,47,116,111,112,95,115,105,100,101>>,
     top_right_side |-> <<47,116,101,114,114,97,105,110,115,95,112,101,101,114,105,110,103,95,98,105,116,47,116,111,112,95,114,105,103,104,116,95,115,105,100,101>>,
     terrain_set_ |-> <<116,101,114,114,97,105,110,95,115,101,116,95>>,
     mode |-> <<47,109,111,100,101>>,
     terrain_ |-> <<47,116,101,114,114,97,105,110,95>>,
     name |-> <<47,110,97,109,101>>,
     color |-> <<47,99,111,108,111,114>>]

Ok(v) == [k |-> "Ok", v |-> v]

\* str::starts_with
StartsWith(s, prefix) == Len(s) >= Len(prefix) /\ SubSeq(s, 1, Len(prefix)) = prefix

----------------------------------------------------------------------------
(* TextureResource::init_from_tag *)

TextureResource(uid, path, id) == [uid |-> uid, path |-> path, id |-> id]

\* faulty checks: a texture without an id passes
texture_checked_without_id(texture, found_type) ==
    IF ~found_type THEN Err("expected texture resource type to be 'Texture2D'")
    ELSE IF texture.uid = << >> THEN Err("missing texture resource 'uid'")
    ELSE IF texture.path = << >> THEN Err("missing texture resource 'path'")
    ELSE Ok(texture)

\* the checks after the loop over the fields
texture_checked(texture, found_type) ==
    IF ~found_type THEN Err("expected texture resource type to be 'Texture2D'")
    ELSE IF texture.uid = << >> THEN Err("missing texture resource 'uid'")
    ELSE IF texture.path = << >> THEN Err("missing texture resource 'path'")
    ELSE IF texture.id = << >> THEN Err("missing texture resource 'id'")
    ELSE Ok(texture)

RECURSIVE texture_fields(_, _, _)
\* `match &*field.identifier`
texture_field(field, rest, texture, found_type) ==
    CASE field.identifier = Res.type ->
            IF field.value.k # "String" THEN Err("expected 'type' to be a string")
            ELSE IF field.value.s # Res.Texture2D
            THEN Err("expected texture resource type to be 'Texture2D'")
            ELSE texture_fields(rest, texture, TRUE)
      [] field.identifier = Res.uid ->
            IF field.value.k # "String" THEN Err("expected 'uid' to be a string")
            ELSE texture_fields(rest, [texture EXCEPT !.uid = field.value.s], found_type)
      [] field.identifier = Res.path ->
            IF field.value.k # "String" THEN Err("expected 'path' to be a string")
            ELSE texture_fields(rest, [texture EXCEPT !.path = field.value.s], found_type)
      [] field.identifier = Res.id ->
            IF field.value.k # "String" THEN Err("expected 'id' to be a string")
            ELSE texture_fields(rest, [texture EXCEPT !.id = field.value.s], found_type)
      [] OTHER -> Err("unexpected 'ext_resource' field")

\* `for field in tag.fields`
texture_fields(fields, texture, found_type) ==
    IF fields = << >> THEN texture_checked(texture, found_type)
    ELSE texture_field(Head(fields), Tail(fields), texture, found_type)

TextureResource_init_from_tag(tag) ==
    texture_fields(tag.fields, TextureResource(<< >>, << >>, << >>), FALSE)

----------------------------------------------------------------------------
(* TileSetAtlasSource::init_from_tag *)

TileSetAtlasSource(id, texture, texture_region_size, tiles) ==
    [id |-> id, texture |-> texture, texture_region_size |-> texture_region_size,
     tiles |-> tiles]

Vector2i(x, y) == [x |-> x, y |-> y]

\* faulty checks: an atlas without a texture passes
atlas_checked_without_texture(found_type, id, texture) ==
    IF ~found_type THEN Err("expected tile atlas source type to be 'TileSetAtlasSource'")
    ELSE IF id = << >> THEN Err("missing tile atlas source 'id'")
    ELSE Ok(TileSetAtlasSource(id, texture, Vector2i(0, 0), << >>))

\* the checks after the two loops, and the result
atlas_checked(found_type, id, texture) ==
    IF ~found_type THEN Err("expected tile atlas source type to be 'TileSetAtlasSource'")
    ELSE IF id = << >> THEN Err("missing tile atlas source 'id'")
    ELSE IF texture = << >> THEN Err("missing tile atlas source 'texture'")
    ELSE Ok(TileSetAtlasSource(id, texture, Vector2i(0, 0), << >>))

\* `for assign in tag.assigns`
RECURSIVE atlas_assigns(_, _, _, _)
atlas_assigns(assigns, found_type, id, texture) ==
    IF assigns = << >> THEN atlas_checked(found_type, id, texture)
    ELSE IF Head(assigns).assign # Res.texture
    THEN atlas_assigns(Tail(assigns), found_type, id, texture)
    ELSE IF Head(assigns).value.k # "ExtResource"
    THEN Err("expected 'texture' to be an 'ExtResource'")
    ELSE atlas_assigns(Tail(assigns), found_type, id, Head(assigns).value.s)

RECURSIVE atlas_fields(_, _, _, _)
\* `match &*field.identifier`
atlas_field(field, rest, assigns, found_type, id) ==
    CASE field.identifier = Res.type ->
            IF field.value.k # "String" THEN Err("expected 'type' to be a string")
            ELSE IF field.value.s # Res.TileSetAtlasSource
            THEN Err("expected tile atlas source type to be 'TileSetAtlasSource'")
            ELSE atlas_fields(rest, assigns, TRUE, id)
      [] field.identifier = Res.id ->
            IF field.value.k # "String" THEN Err("expected 'id' to be a string")
            ELSE atlas_fields(rest, assigns, found_type, field.value.s)
      [] OTHER -> Err("unexpected 'sub_resource' field")

\* `for field in tag.fields`, then the loop over the assigns
atlas_fields(fields, assigns, found_type, id) ==
    IF fields = << >> THEN atlas_assigns(assigns, found_type, id, << >>)
    ELSE atlas_field(Head(fields), Tail(fields), assigns, found_type, id)

TileSetAtlasSource_init_from_tag(tag) == atlas_fields(tag.fields, tag.assigns, FALSE, << >>)

----------------------------------------------------------------------------
(* TileSetResource::init_from_file *)

TileSetResource(uid, texture_resource, tile_set_atlas_source) ==
    [uid |-> uid, texture_resource |-> texture_resource,
     tile_set_atlas_source |-> tile_set_atlas_source]

\* the checks after the loop over the tags, and the result
file_checked(uid, texture_resource, tile_set_atlas_source) ==
    IF texture_resource.k = "None" THEN Err("missing external 'Texture2D' resource")
    ELSE IF tile_set_atlas_source.k = "None" THEN Err("missing 'TileSetAtlasSource' resource")
    ELSE Ok(TileSetResource(uid, texture_resource.v, tile_set_atlas_source.v))

RECURSIVE file_tags(_, _, _, _)
\* `texture_resource = Some(TextureResource::init_from_tag(tag)?)`
file_texture(r, rest, uid, tile_set_atlas_source) ==
    IF r.k = "Err" THEN r ELSE file_tags(rest, uid, Some(r.v), tile_set_atlas_source)

\* `tile_set_atlas_source = Some(TileSetAtlasSource::init_from_tag(tag)?)`
file_atlas(r, rest, uid, texture_resource) ==
    IF r.k = "Err" THEN r ELSE file_tags(rest, uid, texture_resource, Some(r.v))

\* a faulty match: a second `ext_resource` or `sub_resource` replaces the first
file_tag_keeps_last(tag, rest, uid, texture_resource, tile_set_atlas_source) ==
    CASE tag.name = Res.ext_resource ->
            file_texture(TextureResource_init_from_tag(tag), rest, uid,
                         tile_set_atlas_source)
      [] tag.name = Res.sub_resource ->
            file_atlas(TileSetAtlasSource_init_from_tag(tag), rest, uid,
                       texture_resource)
      [] tag.name = Res.resource ->
            file_tags(rest, uid, texture_resource, tile_set_atlas_source)
      [] OTHER -> Err("unexpected tag")

\* a faulty match: the loop over the tags ends at a `resource` tag
file_tag_stops_at_resource(tag, rest, uid, texture_resource, tile_set_atlas_source) ==
    CASE tag.name = Res.ext_resource ->
            IF texture_resource.k = "None"
            THEN file_texture(TextureResource_init_from_tag(tag), rest, uid,
                              tile_set_atlas_source)
            ELSE Err("expected only one 'ext_resource'")
      [] tag.name = Res.sub_resource ->
            IF tile_set_atlas_source.k = "None"
            THEN file_atlas(TileSetAtlasSource_init_from_tag(tag), rest, uid,
                            texture_resource)
            ELSE Err("expected only one 'sub_resource'")
      [] tag.name = Res.resource ->
            file_checked(uid, texture_resource, tile_set_atlas_source)
      [] OTHER -> Err("unexpected tag")

\* `match &*tag.name`
file_tag(tag, rest, uid, texture_resource, tile_set_atlas_source) ==
    CASE tag.name = Res.ext_resource ->
            IF texture_resource.k = "None"
            THEN file_texture(TextureResource_init_from_tag(tag), rest, uid,
                              tile_set_atlas_source)
            ELSE Err("expected only one 'ext_resource'")
      [] tag.name = Res.sub_resource ->
            IF tile_set_atlas_source.k = "None"
            THEN file_atlas(TileSetAtlasSource_init_from_tag(tag), rest, uid,
                            texture_resource)
            ELSE Err("expected only one 'sub_resource'")
      [] tag.name = Res.resource ->
            file_tags(rest, uid, texture_resource, tile_set_atlas_source)
      [] OTHER -> Err("unexpected tag")

\* `for tag in file.tags`
file_tags(ts, uid, texture_resource, tile_set_atlas_source) ==
    IF ts = << >> THEN file_checked(uid, texture_resource, tile_set_atlas_source)
    ELSE file_tag(Head(ts), Tail(ts), uid, texture_resource, tile_set_atlas_source)

\* a faulty pattern: a name-string uid is taken as well
file_uid_any_string(f, i) ==
    IF i = 0 \/ f.header.fields[i].value.k \notin {"String", "StringName"}
    THEN Err("expected a uid string on 'gd_resource'")
    ELSE file_tags(f.tags, f.header.fields[i].value.s, None, None)

\* the `let Some(Field { value: Value::String(uid), .. }) = ..find(..) else`
file_uid(f, i) ==
    IF i = 0 \/ f.header.fields[i].value.k # "String"
    THEN Err("expected a uid string on 'gd_resource'")
    ELSE file_tags(f.tags, f.header.fields[i].value.s, None, None)

TileSetResource_init_from_file(f) ==
    IF f.header.name # Res.gd_resource THEN Err("expected a resource file")
    ELSE file_uid(f, find_field(f.header.fields, Res.uid))

----------------------------------------------------------------------------
(* struct Tile, Tile::append_assigns *)

PeeringBit(bottom_right_side, bottom_side, bottom_left_side, top_left_side, top_side, top_right_side) ==
    [bottom_right_side |-> bottom_right_side, bottom_side |-> bottom_side,
     bottom_left_side |-> bottom_left_side, top_left_side |-> top_left_side,
     top_side |-> top_side, top_right_side |-> top_right_side]

\* PeeringBit::default()
NoPeeringBit == PeeringBit(None, None, None, None, None, None)

Tile(position, terrain_set, terrain, terrains_peering_bit) ==
    [position |-> position, terrain_set |-> terrain_set, terrain |-> terrain,
     terrains_peering_bit |-> terrains_peering_bit]

\* a faulty path: the coordinates are swapped
tile_path_y_first(tile) ==
    ToDecimal(tile.position.y) \o <<58>> \o ToDecimal(tile.position.x) \o Res.slash_0

\* format!("{}:{}/0", self.position.x, self.position.y)
tile_path(tile) ==
    ToDecimal(tile.position.x) \o <<58>> \o ToDecimal(tile.position.y) \o Res.slash_0

\* `if let Some(v) = <option> { assigns.push(TagAssign { assign: format!("{path}<key>"), .. }) }`
push_if_some(assigns, option, path, key) ==
    IF option.k = "Some" THEN Append(assigns, TagAssign(path \o key, IntegerV(option.v)))
    ELSE assigns

\* a faulty order: the top bits are pushed before the bottom bits
push_peering_bits_top_first(assigns, bit, path) ==
    push_if_some(
     push_if_some(
      push_if_some(
       push_if_some(
        push_if_some(
         push_if_some(assigns, bit.top_left_side, path, Res.top_left_side),
         bit.top_side, path, Res.top_side),
        bit.top_right_side, path, Res.top_right_side),
       bit.bottom_right_side, path, Res.bottom_right_side),
      bit.bottom_side, path, Res.bottom_side),
     bit.bottom_left_side, path, Res.bottom_left_side)

\* the six peering bits, in the order of the source
push_peering_bits(assigns, bit, path) ==
    push_if_some(
     push_if_some(
      push_if_some(
       push_if_some(
        push_if_some(
         push_if_some(assigns, bit.bottom_right_side, path, Res.bottom_right_side),
         bit.bottom_side, path, Res.bottom_side),
        bit.bottom_left_side, path, Res.bottom_left_side),
       bit.top_left_side, path, Res.top_left_side),
      bit.top_side, path, Res.top_side),
     bit.top_right_side, path, Res.top_right_side)

append_assigns_at(tile, assigns, path) ==
    push_peering_bits(
        push_if_some(
            push_if_some(Append(assigns, TagAssign(path, IntegerV(0))),
                         tile.terrain_set, path, Res.terrain_set),
            tile.terrain, path, Res.terrain),
        tile.terrains_peering_bit, path)

append_assigns(tile, assigns) == append_assigns_at(tile, assigns, tile_path(tile))

----------------------------------------------------------------------------
(* struct Config (the parts the mapper reads), TileSetResource::print_to_file *)

TerrainConfig(name) == [name |-> name]
TerrainSetConfig(terrains) == [terrains |-> terrains]
Config(tile_size, terrain_sets) ==
    [tile_set |-> [tile_size |-> tile_size], terrain_sets |-> terrain_sets]

\* impl From<[u32; 2]> for Vector2i
Vector2i_from(size) == Vector2i(size[1], size[2])

\* `for tile in &self.tile_set_atlas_source.tiles`
RECURSIVE tiles_assigns(_, _)
tiles_assigns(tiles, assigns) ==
    IF tiles = << >> THEN assigns
    ELSE tiles_assigns(Tail(tiles), append_assigns(Head(tiles), assigns))

\* "terrain_set_{set_index}"
terrain_set_path(set_index) == Res.terrain_set_ \o ToDecimal(set_index)

\* a faulty path: the two indexes are swapped
terrain_path_indexes_swapped(set_index, terrain_index) ==
    terrain_set_path(terrain_index) \o Res.terrain_ \o ToDecimal(set_index)

\* "terrain_set_{set_index}/terrain_{terrain_index}"
terrain_path(set_index, terrain_index) ==
    terrain_set_path(set_index) \o Res.terrain_ \o ToDecimal(terrain_index)

\* `for (terrain_index, terrain) in terrain_set.terrains.iter().enumerate()`
RECURSIVE terrains_assigns(_, _, _, _)
terrains_assigns(terrains, set_index, terrain_index, assigns) ==
    IF terrain_index >= Len(terrains) THEN assigns
    ELSE terrains_assigns(terrains, set_index, terrain_index + 1,
            Append(Append(assigns,
                TagAssign(terrain_path(set_index, terrain_index) \o Res.name,
                          StringV(terrains[terrain_index + 1].name))),
                TagAssign(terrain_path(set_index, terrain_index) \o Res.color,
                          ColorRgbaV(IntToDouble(0), IntToDouble(0), IntToDouble(0),
                                     IntToDouble(1)))))

\* `for (set_index, terrain_set) in config.terrain_sets.iter().enumerate()`
RECURSIVE terrain_sets_assigns(_, _, _)
terrain_sets_assigns(terrain_sets, set_index, assigns) ==
    IF set_index >= Len(terrain_sets) THEN assigns
    ELSE terrain_sets_assigns(terrain_sets, set_index + 1,
            terrains_assigns(terrain_sets[set_index + 1].terrains, set_index, 0,
                Append(assigns,
                       TagAssign(terrain_set_path(set_index) \o Res.mode, IntegerV(2)))))

print_header(res) ==
    Tag(Res.gd_resource,
        <<Field(Res.type, StringV(Res.TileSet)),
          Field(Res.load_steps, IntegerV(3)),
          Field(Res.format, IntegerV(3)),
          Field(Res.uid, StringV(res.uid))>>,
        << >>)

image_tag(res) ==
    Tag(Res.ext_resource,
        <<Field(Res.type, StringV(Res.Texture2D)),
          Field(Res.uid, StringV(res.texture_resource.uid)),
          Field(Res.path, StringV(res.texture_resource.path)),
          Field(Res.id, StringV(res.texture_resource.id))>>,
        << >>)

\* a faulty atlas tag: the texture reference is the id of the texture resource
atlas_tag_links_texture(res) ==
    Tag(Res.sub_resource,
        <<Field(Res.type, StringV(Res.TileSetAtlasSource)),
          Field(Res.id, StringV(res.tile_set_atlas_source.id))>>,
        tiles_assigns(res.tile_set_atlas_source.tiles,
            <<TagAssign(Res.texture, ExtResourceV(res.texture_resource.id)),
              TagAssign(Res.texture_region_size,
                        Vector2iV(res.tile_set_atlas_source.texture_region_size.x,
                                  res.tile_set_atlas_source.texture_region_size.y))>>))

atlas_tag(res) ==
    Tag(Res.sub_resource,
        <<Field(Res.type, StringV(Res.TileSetAtlasSource)),
          Field(Res.id, StringV(res.tile_set_atlas_source.id))>>,
        tiles_assigns(res.tile_set_atlas_source.tiles,
            <<TagAssign(Res.texture, ExtResourceV(res.tile_set_atlas_source.texture)),
              TagAssign(Res.texture_region_size,
                        Vector2iV(res.tile_set_atlas_source.texture_region_size.x,
                                  res.tile_set_atlas_source.texture_region_size.y))>>))

resource_tag(res, cfg) ==
    Tag(Res.resource, << >>,
        Append(
            terrain_sets_assigns(cfg.terrain_sets, 0,
                <<TagAssign(Res.tile_shape, IntegerV(3)),
                  TagAssign(Res.tile_offset_axis, IntegerV(1)),
                  TagAssign(Res.tile_size,
                            Vector2iV(res.tile_set_atlas_source.texture_region_size.x,
                                      res.tile_set_atlas_source.texture_region_size.y))>>),
            TagAssign(Res.sources_0, SubResourceV(res.tile_set_atlas_source.id))))

\* a faulty print_to_file: the atlas source is written before the texture
print_to_file_atlas_first(res, cfg) ==
    GodotFile(print_header(res), <<atlas_tag(res), image_tag(res), resource_tag(res, cfg)>>)

\* the tags print_to_file hands to GodotWriter, in call order: begin with the
\* header, then write_tag for the texture, the atlas source and the resource
print_to_file(res, cfg) ==
    GodotFile(print_header(res), <<image_tag(res), atlas_tag(res), resource_tag(res, cfg)>>)

----------------------------------------------------------------------------
(* The run of try_run from the parsed file on: init_from_file, the update  *)
(* of the resource with the tile size and the layout, print_to_file.       *)

\* load_godot_resource, after parse_file
InitFromFile ==
    /\ pc = "loaded"
    /\ IF TileSetResource_init_from_file(file).k = "Err"
       THEN /\ pc' = "failed"
            /\ error' = TileSetResource_init_from_file(file).msg
            /\ resource' = resource
       ELSE /\ pc' = "mapped"
            /\ error' = error
            /\ resource' = TileSetResource_init_from_file(file).v
    /\ UNCHANGED <<tokens, header, tags, cur, last, file, config, out, writer, rewritten,
                   call_vars>>

\* a faulty check: the texture path is taken as it is
texture_path_unchecked(res) == ""

\* the `let texture_path = if ..is_empty() { bail!(..) } else { godot_path_to_absolute(..)? }`:
\* the message of the error, or "" when there is none
texture_path_error(res) ==
    IF res.texture_resource.path = << >> THEN "expected a tile set texture"
    ELSE IF ~StartsWith(res.texture_resource.path, Res.res_scheme)
    THEN "expected a Godot path"
    ELSE ""

\* "Update resource data": the region size, the tiles, the texture path
UpdateResource(layout) ==
    /\ pc = "mapped"
    /\ resource' =
          [resource EXCEPT
              !.tile_set_atlas_source.texture_region_size =
                  Vector2i_from(config.tile_set.tile_size),
              !.tile_set_atlas_source.tiles = layout]
    /\ IF texture_path_error(resource) = ""
       THEN pc' = "updated" /\ error' = error
       ELSE pc' = "failed" /\ error' = texture_path_error(resource)
    /\ UNCHANGED <<tokens, header, tags, cur, last, file, config, out, writer, rewritten,
                   call_vars>>

\* what the destination does to `File::create(path)?` and to the writes: the
\* file is created (and so emptied) or not, it takes the first `accepted`
\* bytes, and a write that fails is reported by the `?` of begin or write_tag
\* when the BufWriter flushes there, or lost when it flushes as it is dropped
WriteOutcome(created, accepted, reported) ==
    [created |-> created, accepted |-> accepted, reported |-> reported]

\* print_to_file on its own writes to a destination that takes every byte; in
\* a run the destination may fail at the start, in the middle or at the last byte
WriteOutcomes(disk, bytes) ==
    IF disk = None THEN {WriteOutcome(TRUE, Len(bytes), FALSE)}
    ELSE {WriteOutcome(FALSE, 0, TRUE), WriteOutcome(TRUE, Len(bytes), FALSE)}
         \cup {WriteOutcome(TRUE, n, r) :
                  n \in {0, Len(bytes) \div 2, Len(bytes) - 1}, r \in BOOLEAN}

\* the error print_to_file returns, or "" when it returns Ok
print_error(outcome) ==
    IF ~outcome.created THEN "could not create the resource file"
    ELSE IF outcome.reported THEN "could not write the resource file"
    ELSE ""

\* print_to_file: the tags are built, the destination is created (and so
\* emptied) and the writer writes the header and the three tags
PrintToFile ==
    /\ pc = "updated"
    /\ out' = print_to_file(resource, config)
    /\ \E outcome \in WriteOutcomes(run_call, write_document(out'.header, out'.tags)) :
          /\ writer' = IF outcome.created
                        THEN [created |-> TRUE,
                              bytes |-> SubSeq(write_document(out'.header, out'.tags),
                                               1, outcome.accepted)]
                        ELSE writer
          /\ pc' = IF print_error(outcome) = "" THEN "printed" ELSE "failed"
          /\ error' = IF print_error(outcome) = "" THEN error ELSE print_error(outcome)
    /\ UNCHANGED <<tokens, header, tags, cur, last, file, resource, config,
                   rewritten, call_vars>>

----------------------------------------------------------------------------
(* The parsed files init_from_file is run on, and the configurations *)

\* most body tags of a generated file
MaxTags == 4
\* most fields of a generated `ext_resource` tag
MaxExtFields == 5
\* most fields and most assigns of a generated `sub_resource` tag
MaxSubFields == 3
MaxSubAssigns == 2
\* most fields of a generated header
MaxUidFields == 2

GoodHeader ==
    Tag(Res.gd_resource,
        <<Field(Res.type, StringV(<<84,105,108,101,83,101,116>>)), Field(Res.format, IntegerV(3)), Field(Res.uid, StringV(<<117,49>>))>>, << >>)

\* type, uid "t1", path "res://a", id "1"
ExtGoodFields ==
    <<Field(Res.type, StringV(Res.Texture2D)), Field(Res.uid, StringV(<<116,49>>)),
      Field(Res.path, StringV(<<114,101,115,58,47,47,97>>)), Field(Res.id, StringV(<<49>>))>>

ExtGood == Tag(Res.ext_resource, ExtGoodFields, << >>)

\* a second texture: uid "t2", path "res://b", id "9"
ExtOther ==
    Tag(Res.ext_resource,
        <<Field(Res.id, StringV(<<57>>)), Field(Res.path, StringV(<<114,101,115,58,47,47,98>>)),
          Field(Res.uid, StringV(<<116,50>>)), Field(Res.type, StringV(Res.Texture2D))>>, << >>)

\* type, id "2"
SubGoodFields == <<Field(Res.type, StringV(Res.TileSetAtlasSource)), Field(Res.id, StringV(<<50>>))>>

\* texture = ExtResource("1")
SubGoodAssigns == <<TagAssign(Res.texture, ExtResourceV(<<49>>))>>

SubGood ==
    Tag(Res.sub_resource, SubGoodFields,
        SubGoodAssigns \o
        <<TagAssign(Res.texture_region_size, Vector2iV(16, 16)),
          TagAssign(<<48,58,48,47,48>>, IntegerV(0))>>)

\* a second atlas: id "3", texture = ExtResource("9")
SubOther ==
    Tag(Res.sub_resource,
        <<Field(Res.id, StringV(<<51>>)), Field(Res.type, StringV(Res.TileSetAtlasSource))>>,
        <<TagAssign(Res.texture, ExtResourceV(<<57>>))>>)

ResourceTag == Tag(Res.resource, << >>, <<TagAssign(Res.tile_shape, IntegerV(3))>>)

\* [node]
UnknownTag == Tag(<<110,111,100,101>>, << >>, << >>)

TagPool == {ExtGood, ExtOther, SubGood, SubOther, ResourceTag, UnknownTag}

\* the good header with every sequence of body tags
TagFiles == {GodotFile(GoodHeader, ts) : ts \in SeqsUpTo(TagPool, MaxTags)}

ExtFieldPool ==
    {Field(Res.type, StringV(Res.Texture2D)),
     Field(Res.uid, StringV(<<116,49>>)),
     Field(Res.uid, StringV(<<116,50>>)),
     Field(Res.path, StringV(<<114,101,115,58,47,47,97>>)),
     Field(Res.id, StringV(<<49>>))}

\* the fields an `ext_resource` must not have, or not with that value
ExtBadFields ==
    {Field(Res.type, StringV(<<73,109,97,103,101>>)),
     Field(Res.type, IntegerV(1)),
     Field(Res.type, StringNameV(Res.Texture2D)),
     Field(Res.uid, IntegerV(1)),
     Field(Res.uid, StringV(<< >>)),
     Field(Res.uid, StringNameV(<<116,49>>)),
     Field(Res.path, NullV),
     Field(Res.path, StringV(<< >>)),
     Field(Res.path, StringV(<<97>>)),
     Field(Res.id, IntegerV(1)),
     Field(Res.id, StringV(<< >>)),
     Field(Res.load_steps, IntegerV(3))}

\* s without its i-th element
Without(s, i) == SubSeq(s, 1, i - 1) \o SubSeq(s, i + 1, Len(s))

\* s with its i-th element removed, replaced by an element of pool, or with an
\* element of pool added before it or at the end
Variants(s, pool) ==
    UNION {{Without(s, i) : i \in 1..Len(s)},
           {[s EXCEPT ![i] = b] : i \in 1..Len(s), b \in pool},
           {SubSeq(s, 1, i - 1) \o <<b>> \o SubSeq(s, i, Len(s)) :
               i \in 1..(Len(s) + 1), b \in pool}}

\* the `ext_resource` tag with every sequence of good fields; the good
\* `sub_resource` after it
ExtFiles ==
    {GodotFile(GoodHeader, <<Tag(Res.ext_resource, fs, << >>), SubGood>>) :
        fs \in SeqsUpTo(ExtFieldPool, MaxExtFields)}

\* the same with the variants of the four good fields
ExtVariantFiles ==
    {GodotFile(GoodHeader, <<Tag(Res.ext_resource, fs, << >>), SubGood>>) :
        fs \in Variants(ExtGoodFields, ExtBadFields)}

SubFieldPool ==
    {Field(Res.type, StringV(Res.TileSetAtlasSource)),
     Field(Res.id, StringV(<<50>>)),
     Field(Res.id, StringV(<<51>>))}

SubAssignPool ==
    {TagAssign(Res.texture, ExtResourceV(<<49>>)),
     TagAssign(Res.texture, ExtResourceV(<<57>>)),
     TagAssign(Res.tile_size, IntegerV(0))}

SubBadFields ==
    {Field(Res.type, StringV(<<84,105,108,101,83,101,116>>)),
     Field(Res.type, IntegerV(1)),
     Field(Res.id, IntegerV(2)),
     Field(Res.id, StringV(<< >>)),
     Field(Res.id, StringNameV(<<50>>)),
     Field(Res.uid, StringV(<<117,49>>))}

SubBadAssigns ==
    {TagAssign(Res.texture, StringV(<<49>>)),
     TagAssign(Res.texture, SubResourceV(<<49>>)),
     TagAssign(Res.texture, IntegerV(1)),
     TagAssign(Res.texture, ExtResourceV(<< >>))}

\* the good `ext_resource`, then the `sub_resource` tag with every sequence of
\* good fields and assigns
SubFiles ==
    {GodotFile(GoodHeader, <<ExtGood, Tag(Res.sub_resource, fs, as)>>) :
        fs \in SeqsUpTo(SubFieldPool, MaxSubFields),
        as \in SeqsUpTo(SubAssignPool, MaxSubAssigns)}

\* the same with the variants of the good fields, and of the good assigns
SubVariantFiles ==
    {GodotFile(GoodHeader, <<ExtGood, Tag(Res.sub_resource, fs, as)>>) :
        fs \in Variants(SubGoodFields, SubBadFields), as \in {SubGoodAssigns}}

SubAssignVariantFiles ==
    {GodotFile(GoodHeader, <<ExtGood, Tag(Res.sub_resource, fs, as)>>) :
        fs \in {SubGoodFields}, as \in Variants(SubGoodAssigns, SubBadAssigns)}

HeaderNames == {Res.gd_resource, <<103,100,95,115,99,101,110,101>>}

HeaderFieldPool ==
    {Field(Res.uid, StringV(<<117,49>>)),
     Field(Res.uid, StringV(<<117,50>>)),
     Field(Res.uid, IntegerV(1)),
     Field(Res.uid, StringNameV(<<117,49>>)),
     Field(Res.type, StringV(<<84,105,108,101,83,101,116>>))}

\* every header, with the good tags in both orders
HeaderFiles ==
    {GodotFile(Tag(name, fs, << >>), ts) :
        name \in HeaderNames, fs \in SeqsUpTo(HeaderFieldPool, MaxUidFields),
        ts \in {<<ExtGood, SubGood>>, <<SubGood, ExtGood>>}}

\* the families of files
FileFamilies ==
    <<TagFiles, ExtFiles, ExtVariantFiles, SubFiles, SubVariantFiles, SubAssignVariantFiles,
      HeaderFiles>>

\* a fixed tile, as write_tile_set_image lays it out
FixedTile(x, y) == Tile(Vector2i(x, y), None, None, NoPeeringBit)

\* a terrain tile of terrain set 0 and terrain 1, with two peering bits
TerrainTile(x, y) ==
    Tile(Vector2i(x, y), Some(0), Some(1),
         PeeringBit(None, Some(0), None, None, Some(1), None))

\* tile size 16x16 or 16x32; no terrain set, a set of two terrains and an empty
\* one, or a set of one terrain and a set of two
Configs ==
    {Config(<<16, 16>>, << >>),
     Config(<<16, 32>>,
            <<TerrainSetConfig(<<TerrainConfig(<<103>>), TerrainConfig(<<119>>)>>),
              TerrainSetConfig(<< >>)>>),
     Config(<<16, 16>>,
            <<TerrainSetConfig(<<TerrainConfig(<<115>>)>>),
              TerrainSetConfig(<<TerrainConfig(<<103>>), TerrainConfig(<<119>>)>>)>>)}

\* the layouts of a run: no tile, fixed tiles, and a terrain tile when the
\* configuration has terrains
Layouts(cfg) ==
    {<< >>, <<FixedTile(12, 0), FixedTile(0, 0)>>}
    \cup (IF cfg.terrain_sets = << >> THEN {} ELSE {<<FixedTile(0, 0), TerrainTile(1, 0)>>})

----------------------------------------------------------------------------
(* write_tile_set_image: the size of the sheet and the layout of the tiles. *)
(* The arithmetic is u32.  A product or sum that does not fit panics in a   *)
(* build with overflow checks and wraps in a build without: `checked` says  *)
(* which build runs.                                                        *)

\* a * b / 65536 and a * b % 65536, for a below 2^31 and b below 2^15
mul_high(a, b) == (a \div 65536) * b + ((a % 65536) * b) \div 65536
mul_low(a, b) == ((a % 65536) * b) % 65536

\* `a * b` in u32: the wrapped product, and whether it overflowed
u32_mul(a, b) ==
    [v |-> (mul_high(a, b) % 65536) * 65536 + mul_low(a, b),
     overflow |-> mul_high(a, b) >= 65536]

Max(a, b) == IF a >= b THEN a ELSE b

\* `req_width.max(req_height)` of a tile at <<x, y>>
req_size(position, tile_size) ==
    [v |-> Max(u32_mul(position[1] + 1, tile_size[1]).v,
               u32_mul(position[2] + 1, tile_size[2]).v),
     overflow |-> u32_mul(position[1] + 1, tile_size[1]).overflow
                  \/ u32_mul(position[2] + 1, tile_size[2]).overflow]

\* the first loop: `image_size = image_size.max(req_size)` over the tiles
RECURSIVE required_size(_, _, _)
required_size(positions, tile_size, size) ==
    IF positions = << >> THEN size
    ELSE required_size(Tail(positions), tile_size,
                       [v |-> Max(size.v, req_size(Head(positions), tile_size).v),
                        overflow |-> size.overflow
                                     \/ req_size(Head(positions), tile_size).overflow])

\* `(image_size / tile_width) * (image_size / tile_height)`
cell_count(image_size, tile_size) ==
    (image_size \div tile_size[1]) * (image_size \div tile_size[2])

\* the while loop: `image_size += tile_width.max(tile_height)` until the cells suffice
RECURSIVE grown_size(_, _, _)
grown_size(image_size, tile_size, total_tiles) ==
    IF cell_count(image_size, tile_size) < total_tiles
    THEN grown_size(image_size + Max(tile_size[1], tile_size[2]), tile_size, total_tiles)
    ELSE image_size

\* image.copy_from(&tile.image, x * tile_width, y * tile_height) returns Ok:
\* the tile lies inside the image
copy_fits(position, tile_size, image_size) ==
    /\ position[1] + 1 <= image_size \div tile_size[1]
    /\ position[2] + 1 <= image_size \div tile_size[2]

\* the layout entry of a fixed tile
fixed_entry(position) == Tile(Vector2i(position[1], position[2]), None, None, NoPeeringBit)

\* the layout entry of a terrain tile put at column x and row y
terrain_entry(x, y, tile) ==
    Tile(Vector2i(x, y), Some(tile.terrain.terrain_set), Some(tile.terrain.terrain),
         tile.terrains_peering_bit)

IsFixedCell(positions, x, y) == \E i \in 1..Len(positions) : positions[i] = <<x, y>>

\* `coordinates.zip(terrain_tiles)`: the cells row by row, those of the fixed
\* tiles left out, each with the next terrain tile
RECURSIVE zip_cells(_, _, _, _, _)
zip_cells(cell, columns, rows, positions, terrain_tiles) ==
    IF cell >= columns * rows \/ terrain_tiles = << >> THEN << >>
    ELSE IF IsFixedCell(positions, cell % columns, cell \div columns)
    THEN zip_cells(cell + 1, columns, rows, positions, terrain_tiles)
    ELSE <<terrain_entry(cell % columns, cell \div columns, Head(terrain_tiles))>>
            \o zip_cells(cell + 1, columns, rows, positions, Tail(terrain_tiles))

\* the two loops that fill the layout, for the final image size
layout_of(positions, terrain_tiles, tile_size, image_size) ==
    [i \in 1..Len(positions) |-> fixed_entry(positions[i])]
        \o zip_cells(0, image_size \div tile_size[1], image_size \div tile_size[2],
                     positions, terrain_tiles)

\* the call returned: the layout and the size of the image
Laid(layout, image_size) == [panicked |-> FALSE, layout |-> layout, image_size |-> image_size]

\* the call panicked
Panicked == [panicked |-> TRUE, layout |-> << >>, image_size |-> 0]

\* the function from the image on: the `.expect(..)` of a tile that does not fit panics
image_filled(positions, terrain_tiles, tile_size, image_size) ==
    IF \E i \in 1..Len(positions) : ~copy_fits(positions[i], tile_size, image_size)
    THEN Panicked
    ELSE Laid(layout_of(positions, terrain_tiles, tile_size, image_size), image_size)

\* write_tile_set_image(tiles, terrain_tiles, config), the tiles given by
\* their configured positions; a tile size of 0 is a division by zero in the
\* while loop
write_tile_set_image(positions, terrain_tiles, tile_size, checked) ==
    IF required_size(positions, tile_size, [v |-> 0, overflow |-> FALSE]).overflow /\ checked
    THEN Panicked
    ELSE IF tile_size[1] = 0 \/ tile_size[2] = 0 THEN Panicked
    ELSE image_filled(positions, terrain_tiles, tile_size,
                      grown_size(required_size(positions, tile_size,
                                               [v |-> 0, overflow |-> FALSE]).v,
                                 tile_size, Len(positions) + Len(terrain_tiles)))

----------------------------------------------------------------------------
(* Tile::append_assigns called on its own, for each tile and each list     *)

\* the largest terrain set index, terrain index and peering bit of a tile
MaxTerrain == 1

\* Option<u32> over the indexes
OptionalIndexes == {None} \cup {Some(i) : i \in 0..MaxTerrain}

PeeringBits ==
    {PeeringBit(a, b, c, d, e, f) :
        a \in OptionalIndexes, b \in OptionalIndexes, c \in OptionalIndexes,
        d \in OptionalIndexes, e \in OptionalIndexes, f \in OptionalIndexes}

TilePositions == {Vector2i(0, 0), Vector2i(12, 1)}

Tiles ==
    {Tile(position, terrain_set, terrain, bits) :
        position \in TilePositions, terrain_set \in OptionalIndexes,
        terrain \in OptionalIndexes, bits \in PeeringBits}

\* the list handed to append_assigns: empty, or the two assigns of the atlas tag
AssignLists ==
    {<< >>,
     <<TagAssign(Res.texture, ExtResourceV(<<49>>)),
       TagAssign(Res.texture_region_size, Vector2iV(16, 16))>>}

InitTile ==
    /\ pc = "tile"
    /\ tokens = Tokenizer(<< >>)
    /\ header = NoTag
    /\ tags = << >>
    /\ cur = NoTag
    /\ error = ""
    /\ last = NoCall
    /\ file = NoFile
    /\ resource = NoResource
    /\ config = NoConfig
    /\ out = NoFile
    /\ writer = NoWriter
    /\ rewritten = << >>
    /\ image_call = None
    /\ parse_call = None
    /\ tile_call \in {[tile |-> t, before |-> list, after |-> list] :
                        t \in Tiles, list \in AssignLists}
    /\ fmt_call = None
    /\ run_call = None

\* `tile.append_assigns(&mut assigns)`
AppendAssigns ==
    /\ pc = "tile"
    /\ tile_call' = [tile_call EXCEPT !.after = append_assigns(tile_call.tile, tile_call.before)]
    /\ pc' = "appended"
    /\ UNCHANGED <<tokens, header, tags, cur, error, last, file, resource, config, out,
                   writer, rewritten, image_call, parse_call, fmt_call, run_call>>

SpecTile == InitTile /\ [][AppendAssigns]_vars

----------------------------------------------------------------------------
(* GodotWriter driven on its own: begin with a header, write_tag for any   *)
(* tags; then the text is read back by parse_file and the parsed header    *)
(* and tags are written again.                                             *)

\* most write_tag calls of a run
MaxWriteTags == 2

\* values of every variant, as Value::parse can return them; the double
\* 1e999 is read as infinity
WriterValues ==
    {NullV, BoolV(TRUE), IntegerV(-12),
     DoubleV(Finite(FALSE, 16, 0)), DoubleV(Finite(FALSE, 0, 0)),
     DoubleV(Finite(TRUE, 15, -8)), DoubleV(Inf),
     StringV(<<97, 92>>), StringNameV(<<110>>),
     ColorHtmlV(<<35, 102, 48>>),
     ColorRgbaV(IntToDouble(0), IntToDouble(0), IntToDouble(0), IntToDouble(1)),
     ColorRgbaV(Inf, IntToDouble(0), Finite(FALSE, 5, -1), IntToDouble(1)),
     Vector2iV(16, -1), SubResourceV(<<50, 95, 97>>), ExtResourceV(<<49, 95, 120>>)}

\* the values used as fields
WriterFieldValues ==
    {IntegerV(3), StringV(<<97>>), DoubleV(Finite(FALSE, 16, 0))}

\* [t k=v], [t] with `p = v`, a tag of two fields and two assigns, and a tag
\* with a compound name
WriterTags ==
    {Tag(<<116>>, <<Field(<<107>>, v)>>, << >>) : v \in WriterFieldValues}
    \cup {Tag(<<116>>, << >>, <<TagAssign(<<112>>, v)>>) : v \in WriterValues}
    \cup {Tag(Res.sub_resource,
              <<Field(Res.type, StringV(Res.TileSetAtlasSource)), Field(Res.id, StringV(<<50>>))>>,
              <<TagAssign(Res.texture, ExtResourceV(<<49>>)),
                TagAssign(<<48, 58, 48, 47, 48>>, IntegerV(0))>>),
          Tag(<<97, 46, 98>>, << >>, << >>)}

WriterHeaders ==
    {Tag(Res.gd_resource,
         <<Field(Res.type, StringV(Res.TileSet)), Field(Res.format, IntegerV(3))>>, << >>),
     Tag(<<104>>, << >>, << >>)}

InitWriter ==
    /\ pc = "begin"
    /\ tokens = Tokenizer(<< >>)
    /\ header = NoTag
    /\ tags = << >>
    /\ cur = NoTag
    /\ error = ""
    /\ last = NoCall
    /\ file = NoFile
    /\ resource = NoResource
    /\ config = NoConfig
    /\ out \in {GodotFile(h, << >>) : h \in WriterHeaders}
    /\ writer = NoWriter
    /\ rewritten = << >>
    /\ NoCalls

\* GodotWriter::begin(writer, &header)
Begin ==
    /\ pc = "begin"
    /\ writer' = [created |-> TRUE, bytes |-> GodotWriter_begin(out.header)]
    /\ pc' = "writing"
    /\ UNCHANGED <<tokens, header, tags, cur, error, last, file, resource, config, out,
                   rewritten, call_vars>>

\* writer.write_tag(&tag); `out` keeps the tags of the calls made
WriteTag(tag) ==
    /\ pc = "writing"
    /\ Len(out.tags) < MaxWriteTags
    /\ writer' = [writer EXCEPT !.bytes = GodotWriter_write_tag(@, tag)]
    /\ out' = [out EXCEPT !.tags = Append(@, tag)]
    /\ UNCHANGED <<pc, tokens, header, tags, cur, error, last, file, resource, config,
                   rewritten, call_vars>>

\* parse_file on the text written: the file is read and the tokenizer made
ReadBack ==
    /\ pc = "writing"
    /\ tokens' = Tokenizer(writer.bytes)
    /\ pc' = "header"
    /\ UNCHANGED <<header, tags, cur, error, last, file, resource, config, out, writer,
                   rewritten, call_vars>>

\* the parsed header and body tags are written with a second writer
WriteBack ==
    /\ pc = "parsed"
    /\ rewritten' = write_document(file.header, file.tags)
    /\ pc' = "rewritten"
    /\ UNCHANGED <<tokens, header, tags, cur, error, last, file, resource, config, out,
                   writer, call_vars>>

NextWriter ==
    \/ Begin
    \/ \E tag \in WriterTags : WriteTag(tag)
    \/ ReadBack
    \/ ParseHeader
    \/ ParseTag
    \/ ParseAssign
    \/ WriteBack

SpecWriter == InitWriter /\ [][NextWriter]_vars

----------------------------------------------------------------------------
(* godot_fmt driven on its own: <i64 as GodotFmt>, <f64 as GodotFmt> and   *)
(* <Value as GodotFmt> are handed a value each, and the text of a Value is *)
(* read back by Value::parse.                                              *)

\* the integers -MaxSmallInt..MaxSmallInt are all rendered
MaxSmallInt == 120

\* i64::MIN and i64::MAX
I64_MIN == I64(TRUE, <<8, 0, 0, 0, 0>>)
I64_MAX == I64(FALSE, <<7, 32767, 32767, 32767, 32767>>)

\* integers across the width of an i64, of either sign: the extremes, powers
\* of ten and of two and their neighbours
WideInts ==
    {I64(FALSE, <<7, 32767, 32767, 32767, 32767>>),
     I64(TRUE, <<7, 32767, 32767, 32767, 32767>>),
     I64(FALSE, <<7, 32767, 32767, 32767, 32766>>),
     I64(TRUE, <<7, 32767, 32767, 32767, 32766>>),
     I64(FALSE, <<0, 28421, 23246, 20168, 0>>),
     I64(TRUE, <<0, 28421, 23246, 20168, 0>>),
     I64(FALSE, <<0, 28421, 23246, 20167, 32767>>),
     I64(TRUE, <<0, 28421, 23246, 20167, 32767>>),
     I64(FALSE, <<0, 0, 4, 0, 0>>),
     I64(TRUE, <<0, 0, 4, 0, 0>>),
     I64(FALSE, <<0, 0, 2, 0, 0>>),
     I64(TRUE, <<0, 0, 2, 0, 0>>),
     I64(FALSE, <<0, 0, 1, 32767, 32767>>),
     I64(TRUE, <<0, 0, 1, 32767, 32767>>),
     I64(FALSE, <<0, 0, 9, 10263, 25600>>),
     I64(TRUE, <<0, 0, 9, 10263, 25600>>),
     I64(FALSE, <<0, 0, 9, 10263, 25599>>),
     I64(TRUE, <<0, 0, 9, 10263, 25599>>),
     I64(FALSE, <<0, 3, 16674, 3099, 24441>>),
     I64(TRUE, <<0, 3, 16674, 3099, 24441>>),
     I64(FALSE, <<0, 0, 0, 1, 0>>),
     I64(TRUE, <<0, 0, 0, 1, 0>>),
     I64(FALSE, <<0, 0, 0, 0, 32767>>),
     I64(TRUE, <<0, 0, 0, 0, 32767>>),
     I64(FALSE, <<0, 28, 13818, 18829, 1>>),
     I64(TRUE, <<0, 28, 13818, 18829, 1>>),
     I64(TRUE, <<8, 0, 0, 0, 0>>)}

SmallInts == {I64_from(v) : v \in -MaxSmallInt..MaxSmallInt}

\* doubles: zero of either sign, the infinities, not-a-number, whole numbers
\* on both sides of 10^16, fractions, and magnitudes ryu prints with an exponent
FmtDoubles ==
    {Finite(FALSE, 0, 0), Finite(TRUE, 0, 0), Inf, NegInf, NaN,
     Finite(FALSE, 16, 0), Finite(TRUE, 16, 0), Finite(FALSE, 1, 0), Finite(FALSE, 1, 2),
     Finite(FALSE, 1, 15), Finite(FALSE, 1234, 7), Finite(TRUE, 9007, 12),
     Finite(FALSE, 1, 16), Finite(FALSE, 15, 15), Finite(FALSE, 12, 20), Finite(TRUE, 1, 22),
     Finite(FALSE, 5, -1), Finite(TRUE, 125, -2), Finite(FALSE, 1005, -1),
     Finite(FALSE, 1, -4), Finite(FALSE, 1, -5),  Finite(FALSE, 12, -9), Finite(TRUE, 15, -8)}

\* the doubles whose text has at most nine digits before the point or an
\* exponent: the digits of a literal are evaluated in 31 bits here
ShortDoubles ==
    {d \in FmtDoubles : d.cls # "finite" \/ NumDigits(d.m) + d.e <= 9 \/ NumDigits(d.m) + d.e > 16}

\* values of every variant, as Value::parse can return them, and a name with
\* a quote in it, as print_to_file takes it from a terrain of the configuration
FmtValues ==
    WriterValues \cup {DoubleV(d) : d \in ShortDoubles}
        \cup {BoolV(FALSE)}
        \cup {IntegerV(v) : v \in {0, 1, -1, 16, 100, 32768, -2147483647}}
        \cup {ColorRgbaV(Finite(FALSE, 5, -1), Finite(FALSE, 25, -2), IntToDouble(1), NegInf),
              ColorRgbaV(Finite(FALSE, 16, 0), Finite(TRUE, 15, -8), IntToDouble(0), IntToDouble(1)),
              StringV(<< >>), StringV(<<97>>), StringV(<<97, 34, 98>>), StringNameV(<< >>), Vector2iV(0, 0), ColorHtmlV(<<35>>)}

FmtCall(kind, value) ==
    [kind |-> kind, value |-> value, run |-> None, parsed |-> None]

InitFmt ==
    /\ pc = "fmt"
    /\ tokens = Tokenizer(<< >>)
    /\ header = NoTag
    /\ tags = << >>
    /\ cur = NoTag
    /\ error = ""
    /\ last = NoCall
    /\ file = NoFile
    /\ resource = NoResource
    /\ config = NoConfig
    /\ out = NoFile
    /\ writer = NoWriter
    /\ rewritten = << >>
    /\ image_call = None
    /\ parse_call = None
    /\ tile_call = None
    /\ run_call = None
    /\ \/ fmt_call \in {FmtCall("i64", n) : n \in SmallInts}
       \/ fmt_call \in {FmtCall("i64", n) : n \in WideInts}
       \/ fmt_call \in {FmtCall("f64", d) : d \in FmtDoubles}
       \/ fmt_call \in {FmtCall("Value", v) : v \in FmtValues}

\* the run of a renderer that cannot fail on the way
Written(bytes) == [bytes |-> bytes, panicked |-> FALSE, overflowed |-> FALSE]

\* <i64 as GodotFmt>::godot_fmt(&n, writer)
FmtI64 ==
    /\ pc = "fmt"
    /\ fmt_call.kind = "i64"
    /\ fmt_call' = [fmt_call EXCEPT !.run = Some(i64_godot_fmt_run(fmt_call.value))]
    /\ pc' = "rendered"
    /\ UNCHANGED <<tokens, header, tags, cur, error, last, file, resource, config, out,
                   writer, rewritten, image_call, parse_call, tile_call, run_call>>

\* <f64 as GodotFmt>::godot_fmt(&d, writer)
FmtF64 ==
    /\ pc = "fmt"
    /\ fmt_call.kind = "f64"
    /\ fmt_call' = [fmt_call EXCEPT !.run = Some(Written(f64_godot_fmt(fmt_call.value)))]
    /\ pc' = "rendered"
    /\ UNCHANGED <<tokens, header, tags, cur, error, last, file, resource, config, out,
                   writer, rewritten, image_call, parse_call, tile_call, run_call>>

\* <Value as GodotFmt>::godot_fmt(&value, writer)
FmtValue ==
    /\ pc = "fmt"
    /\ fmt_call.kind = "Value"
    /\ fmt_call' = [fmt_call EXCEPT !.run = Some(Written(value_godot_fmt(fmt_call.value)))]
    /\ pc' = "rendered"
    /\ UNCHANGED <<tokens, header, tags, cur, error, last, file, resource, config, out,
                   writer, rewritten, image_call, parse_call, tile_call, run_call>>

\* Value::parse(&mut Tokenizer::new(<the text written>))
ParseRendered ==
    /\ pc = "rendered"
    /\ fmt_call.kind = "Value"
    /\ fmt_call' = [fmt_call EXCEPT
                        !.parsed = Some(Value_parse(Tokenizer(fmt_call.run.v.bytes)).r)]
    /\ pc' = "reparsed"
    /\ UNCHANGED <<tokens, header, tags, cur, error, last, file, resource, config, out,
                   writer, rewritten, image_call, parse_call, tile_call, run_call>>

NextFmt == FmtI64 \/ FmtF64 \/ FmtValue \/ ParseRendered

SpecFmt == InitFmt /\ [][NextFmt]_vars

----------------------------------------------------------------------------
(* try_run, step by step: the configuration is loaded and checked, the    *)
(* paths are found, the resource file is parsed and mapped, the tiles are  *)
(* loaded and laid out, the resource is updated and printed, the image is  *)
(* saved.  What the run finds on disk is fixed at the start.               *)

EndsWith(s, suffix) ==
    Len(s) >= Len(suffix) /\ SubSeq(s, Len(s) - Len(suffix) + 1, Len(s)) = suffix

\* ".tres"
TresSuffix == <<46, 116, 114, 101, 115>>

\* str::trim_start_matches("res://"): the prefix is removed as often as it matches
RECURSIVE trim_start_matches_res(_)
trim_start_matches_res(s) ==
    IF StartsWith(s, Res.res_scheme)
    THEN trim_start_matches_res(SubSeq(s, Len(Res.res_scheme) + 1, Len(s)))
    ELSE s

\* godot_path_to_absolute: the path below the project directory
godot_path_to_absolute(godot_path) ==
    IF ~StartsWith(godot_path, Res.res_scheme) THEN Err("expected a Godot path")
    ELSE Ok(trim_start_matches_res(godot_path))

\* struct GodotConfig: "res://t.tres", "res://t.txt" and "t.tres"
GodotConfigs ==
    {[project_path |-> <<46>>, tile_set_path |-> p] :
        p \in {<<114,101,115,58,47,47,116>> \o TresSuffix,
               <<114,101,115,58,47,47,116,46,116,120,116>>,
               <<116>> \o TresSuffix}}

\* struct Config with its godot part
RunConfig(cfg, godot) ==
    [tile_set |-> cfg.tile_set, terrain_sets |-> cfg.terrain_sets, godot |-> godot]

RunConfigs == {RunConfig(cfg, godot) : cfg \in Configs, godot \in GodotConfigs}

\* an `ext_resource` with the path "a", and one with the path ""
ExtWithPath(path) ==
    Tag(Res.ext_resource,
        <<Field(Res.type, StringV(Res.Texture2D)), Field(Res.uid, StringV(<<116,49>>)),
          Field(Res.path, StringV(path)), Field(Res.id, StringV(<<49>>))>>, << >>)

\* resource files as Godot writes them: a complete one, one with a `resource`
\* tag, one without atlas source, two whose texture path is no Godot path
RunFiles ==
    {GodotFile(GoodHeader, <<ExtGood, SubGood>>),
     GodotFile(GoodHeader, <<ExtGood, SubGood, ResourceTag>>),
     GodotFile(GoodHeader, <<ExtGood>>),
     GodotFile(GoodHeader, <<ExtWithPath(<<97>>), SubGood>>),
     GodotFile(GoodHeader, <<ExtWithPath(<< >>), SubGood>>)}

\* the bytes of those files, an empty file, a header that is cut short, a
\* header of another format and a tag whose assign has no value
RunTexts ==
    {write_document(f.header, f.tags) : f \in RunFiles}
    \cup {<< >>,
          <<91, 103, 100, 95, 114, 101, 115, 111, 117, 114, 99, 101>>,
          <<91, 103, 100, 95, 114, 101, 115, 111, 117, 114, 99, 101, 32,
            102, 111, 114, 109, 97, 116, 61, 52, 93, 10>>,
          write_document(GoodHeader, <<ExtGood>>) \o <<97, 32, 61, 10>>}

\* what a run finds: the configuration file (None when it cannot be read or
\* parsed), the resource file (None when it cannot be opened), whether the
\* tile and terrain images load, whether the tiles fit the sheet, whether the
\* image can be saved
Disk(cfg, source, tiles, terrain, fits, saves) ==
    [config |-> cfg, source |-> source, tiles_load |-> tiles, terrain_loads |-> terrain,
     tiles_fit |-> fits, image_saves |-> saves, steps |-> << >>]

InitRun ==
    /\ pc = "start"
    /\ tokens = Tokenizer(<< >>)
    /\ header = NoTag
    /\ tags = << >>
    /\ cur = NoTag
    /\ error = ""
    /\ last = NoCall
    /\ file = NoFile
    /\ resource = NoResource
    /\ config = NoConfig
    /\ out = NoFile
    /\ writer = NoWriter
    /\ rewritten = << >>
    /\ image_call = None
    /\ parse_call = None
    /\ tile_call = None
    /\ fmt_call = None
    /\ \E tiles, terrain, fits, saves \in BOOLEAN :
          \/ run_call \in {Disk(None, Some(source), tiles, terrain, fits, saves) :
                              source \in RunTexts}
          \/ run_call \in {Disk(Some(cfg), None, tiles, terrain, fits, saves) :
                              cfg \in RunConfigs}
          \/ run_call \in {Disk(Some(cfg), Some(source), tiles, terrain, fits, saves) :
                              cfg \in RunConfigs, source \in RunTexts}

\* a step of try_run that succeeded
Done(step) == run_call' = [run_call EXCEPT !.steps = Append(@, step)]

\* an early return of try_run with an error
Failed(msg) == pc' = "failed" /\ error' = msg /\ run_call' = run_call

\* `let config = load_config(&args.file).context(..)?`
LoadConfig ==
    /\ pc = "start"
    /\ IF run_call.config = None
       THEN Failed("could not read tile set config file") /\ config' = config
       ELSE pc' = "config" /\ error' = error /\ config' = run_call.config.v
            /\ Done("load_config")
    /\ UNCHANGED <<tokens, header, tags, cur, last, file, resource, out, writer, rewritten, image_call, parse_call,
                   tile_call, fmt_call>>

\* `if !config.godot.tile_set_path.ends_with(".tres") { bail!(..) }`
CheckTileSetPath ==
    /\ pc = "config"
    /\ IF ~EndsWith(config.godot.tile_set_path, TresSuffix)
       THEN Failed("expected 'tile_set_path' to be on the format 'res://Path/To/resource.tres'")
       ELSE pc' = "paths" /\ error' = error /\ Done("tile_set_path")
    /\ UNCHANGED <<tokens, header, tags, cur, last, file, resource, config, out, writer,
                   rewritten, image_call, parse_call, tile_call, fmt_call>>

\* "Find paths": `godot_path_to_absolute(&godot_project_path, &config.godot.tile_set_path)?`
\* (the configuration was read from args.file, so the path has a parent)
FindPaths ==
    /\ pc = "paths"
    /\ IF godot_path_to_absolute(config.godot.tile_set_path).k = "Err"
       THEN Failed(godot_path_to_absolute(config.godot.tile_set_path).msg)
       ELSE pc' = "open" /\ error' = error /\ Done("resource_path")
    /\ UNCHANGED <<tokens, header, tags, cur, last, file, resource, config, out, writer,
                   rewritten, image_call, parse_call, tile_call, fmt_call>>

\* parse_file: `let file = File::open(path)?` and the tokenizer on its bytes
OpenResource ==
    /\ pc = "open"
    /\ IF run_call.source = None
       THEN Failed("could not load Godot tile set file") /\ tokens' = tokens
       ELSE pc' = "header" /\ error' = error /\ tokens' = Tokenizer(run_call.source.v)
            /\ Done("open")
    /\ UNCHANGED <<header, tags, cur, last, file, resource, config, out, writer, rewritten, image_call, parse_call,
                   tile_call, fmt_call>>

\* load_godot_resource after parse_file returned the file:
\* `TileSetResource::init_from_file(godot_file).context(..)`, and the `?` of try_run
InitFromParsedFile ==
    /\ pc = "parsed"
    /\ IF TileSetResource_init_from_file(file).k = "Err"
       THEN /\ pc' = "failed"
            /\ error' = TileSetResource_init_from_file(file).msg
            /\ resource' = resource
            /\ run_call' = [run_call EXCEPT !.steps = Append(@, "parse_file")]
       ELSE /\ pc' = "resource"
            /\ error' = error
            /\ resource' = TileSetResource_init_from_file(file).v
            /\ run_call' = [run_call EXCEPT !.steps = @ \o <<"parse_file", "init_from_file">>]
    /\ UNCHANGED <<tokens, header, tags, cur, last, file, config, out, writer, rewritten, image_call, parse_call,
                   tile_call, fmt_call>>

\* `let tiles = load_tiles(&config_directory_path, &config)?`
LoadTiles ==
    /\ pc = "resource"
    /\ IF ~run_call.tiles_load
       THEN Failed("could not open tile image")
       ELSE pc' = "tiles" /\ error' = error /\ Done("load_tiles")
    /\ UNCHANGED <<tokens, header, tags, cur, last, file, resource, config, out, writer,
                   rewritten, image_call, parse_call, tile_call, fmt_call>>

\* `let terrain_tiles = load_terrain_tiles(&config_directory_path, &config)?`:
\* nothing is opened when the configuration has no terrain set
LoadTerrainTiles ==
    /\ pc = "tiles"
    /\ IF config.terrain_sets # << >> /\ ~run_call.terrain_loads
       THEN Failed("could not open terrain image")
       ELSE pc' = "terrain" /\ error' = error /\ Done("load_terrain_tiles")
    /\ UNCHANGED <<tokens, header, tags, cur, last, file, resource, config, out, writer,
                   rewritten, image_call, parse_call, tile_call, fmt_call>>

\* write_tile_set_image: `.expect("there should be enough room ..")` panics
\* when a tile image does not fit; the layout it returns is taken in the update
WriteTileSetImage ==
    /\ pc = "terrain"
    /\ IF ~run_call.tiles_fit
       THEN pc' = "panicked" /\ run_call' = run_call
       ELSE pc' = "mapped" /\ Done("write_tile_set_image")
    /\ UNCHANGED <<tokens, header, tags, cur, error, last, file, resource, config, out, writer,
                   rewritten, image_call, parse_call, tile_call, fmt_call>>

\* `image.save_with_format(texture_path, image::ImageFormat::Png)?`
SaveImage ==
    /\ pc = "printed"
    /\ IF ~run_call.image_saves
       THEN Failed("could not save the image")
       ELSE pc' = "done" /\ error' = error /\ Done("save")
    /\ UNCHANGED <<tokens, header, tags, cur, last, file, resource, config, out, writer,
                   rewritten, image_call, parse_call, tile_call, fmt_call>>

NextRun ==
    \/ LoadConfig
    \/ CheckTileSetPath
    \/ FindPaths
    \/ OpenResource
    \/ ParseHeader
    \/ ParseTag
    \/ ParseAssign
    \/ InitFromParsedFile
    \/ LoadTiles
    \/ LoadTerrainTiles
    \/ WriteTileSetImage
    \/ pc = "mapped" /\ \E layout \in Layouts(config) : UpdateResource(layout)
    \/ PrintToFile
    \/ SaveImage

SpecRun == InitRun /\ [][NextRun]_vars

----------------------------------------------------------------------------
(* write_tile_set_image on its own, on every list of fixed tile positions   *)
(* and terrain tiles, in both builds.                                       *)

\* most fixed tiles and most terrain tiles of a call
MaxFixedTiles == 2
MaxTerrainTiles == 3

\* positions as the configuration gives them: nothing keeps two tiles from
\* having the same one
ImagePositions == {<<0, 0>>, <<1, 0>>, <<0, 2>>, <<2, 1>>}

\* positions whose required width is 2^32 and 2^32 + 16 for tiles 16 wide
FarPositions == {<<268435455, 0>>, <<268435456, 0>>}

\* struct TerrainTile, without its image
LoadedTerrainTile(terrain_set, terrain, bits) ==
    [terrain |-> [terrain_set |-> terrain_set, terrain |-> terrain],
     terrains_peering_bit |-> bits]

LoadedTerrainTiles ==
    {LoadedTerrainTile(0, 0, PeeringBit(None, Some(0), None, None, Some(1), None)),
     LoadedTerrainTile(0, 1, PeeringBit(Some(1), Some(1), Some(1), Some(1), Some(1), Some(1)))}

\* [tile_width, tile_height]
TileSizes == {<<16, 16>>, <<16, 32>>, <<32, 16>>, <<1, 1>>, <<0, 16>>}

ImageCall(positions, terrain_tiles, tile_size, checked) ==
    [positions |-> positions, terrain_tiles |-> terrain_tiles, tile_size |-> tile_size,
     checked |-> checked, result |-> None]

InitImage ==
    /\ pc = "image"
    /\ tokens = Tokenizer(<< >>)
    /\ header = NoTag
    /\ tags = << >>
    /\ cur = NoTag
    /\ error = ""
    /\ last = NoCall
    /\ file = NoFile
    /\ resource = NoResource
    /\ config = NoConfig
    /\ out = NoFile
    /\ writer = NoWriter
    /\ rewritten = << >>
    /\ tile_call = None
    /\ fmt_call = None
    /\ run_call = None
    /\ parse_call = None
    /\ \E checked \in BOOLEAN :
          \/ image_call \in {ImageCall(ps, ts, size, checked) :
                                ps \in SeqsUpTo(ImagePositions, MaxFixedTiles),
                                ts \in SeqsUpTo(LoadedTerrainTiles, MaxTerrainTiles),
                                size \in TileSizes}
          \/ image_call \in {ImageCall(<<p>>, ts, <<16, 16>>, checked) :
                                p \in FarPositions,
                                ts \in SeqsUpTo(LoadedTerrainTiles, 1)}

\* `let (image, layout) = write_tile_set_image(&tiles, terrain_tiles, &config)`
CallWriteTileSetImage ==
    /\ pc = "image"
    /\ image_call' = [image_call EXCEPT
                         !.result = Some(write_tile_set_image(image_call.positions,
                                                              image_call.terrain_tiles,
                                                              image_call.tile_size,
                                                              image_call.checked))]
    /\ pc' = "laid"
    /\ UNCHANGED <<tokens, header, tags, cur, error, last, file, resource, config, out, writer,
                   rewritten, tile_call, fmt_call, run_call, parse_call>>

SpecImage == InitImage /\ [][CallWriteTileSetImage]_vars

----------------------------------------------------------------------------
(* Tokenizer::next_token and Value::parse called on their own *)

\* longest tail of a number text, after its first byte
MaxNumberLen == 4
\* most bytes after the `#` of a color text
MaxColorLen == 3
\* most bytes after the opening quote of a string text
MaxStringLen == 4
\* most arguments of a constructor text
MaxArgs == 5

\* the bytes of number texts: - + . e 1 0 space
NumberBytes == {45, 43, 46, 101, 49, 48, 32}

\* a `-` or a digit and up to n more bytes
NumberTexts(n) ==
    {<<first>> \o rest : first \in {45, 49, 48}, rest \in SeqsUpTo(NumberBytes, n)}

\* the first literals beyond the two ends of the i64 range, and the largest
\* ones the model's integers hold: 9223372036854775808, -9223372036854775809,
\* 2147483647, -2147483647
WideNumbers ==
    {I64MinDigits, <<45>> \o [I64MinDigits EXCEPT ![19] = 57],
     <<50,49,52,55,52,56,51,54,52,55>>, <<45,50,49,52,55,52,56,51,54,52,55>>}

\* each of them alone and before a `)`
WideNumberTexts == {digits \o rest : digits \in WideNumbers, rest \in {<< >>, <<41>>}}

\* the bytes after the `#` of color texts: 0 f A g space )
ColorBytes == {48, 102, 65, 103, 32, 41}

\* a `#` and up to n more bytes
ColorTexts(n) == {<<35>> \o rest : rest \in SeqsUpTo(ColorBytes, n)}

\* the bytes after the opening quote of string texts: " \ LF a space
StringBytes == {34, 92, 10, 97, 32}

\* what a string text starts with: " @" &" @ &
StringOpenings == {<<34>>, <<64, 34>>, <<38, 34>>, <<64>>, <<38>>}

\* an opening and up to n more bytes
StringTexts(n) ==
    {open \o rest : open \in StringOpenings, rest \in SeqsUpTo(StringBytes, n)}

\* the arguments of constructor texts: 1 -2 2.5 x
ArgTexts == {<<49>>, <<45, 50>>, <<50, 46, 53>>, <<120>>}

\* how a constructor text departs from `Name(a, b, ..)`
Defects == {"none", "no_open", "no_close", "no_comma", "trailing_comma", "leading_comma"}

\* the arguments from the i-th on, joined by `, `; the comma before the last
\* one is left out when the defect says so
RECURSIVE JoinArgs(_, _, _)
JoinArgs(args, i, defect) ==
    IF i > Len(args) THEN << >>
    ELSE (IF i = 1 THEN << >>
          ELSE IF defect = "no_comma" /\ i = Len(args) THEN <<32>>
          ELSE <<44, 32>>)
         \o args[i] \o JoinArgs(args, i + 1, defect)

ConstructorText(name, args, defect) ==
    name
    \o (IF defect = "no_open" THEN <<32>> ELSE <<40>>)
    \o (IF defect = "leading_comma" THEN <<44>> ELSE << >>)
    \o JoinArgs(args, 1, defect)
    \o (IF defect = "trailing_comma" THEN <<44>> ELSE << >>)
    \o (IF defect = "no_close" THEN << >> ELSE <<41>>)

Shape(name, args, defect) == [name |-> name, args |-> args, defect |-> defect]

\* the constructors with up to n arguments
ConstructorShapes(n) ==
    {Shape(name, args, defect) :
        name \in {Lit.Vector2i, Lit.Color}, args \in SeqsUpTo(ArgTexts, n),
        defect \in Defects}

\* the arguments of resource reference texts: "a" 1 x and none
ReferenceArgTexts == {<<34, 97, 34>>, <<49>>, <<120>>, << >>}

ReferenceShapes ==
    {Shape(name, <<arg>>, defect) :
        name \in {Lit.SubResource, Lit.ExtResource}, arg \in ReferenceArgTexts,
        defect \in Defects}

\* barewords: the eleven of Value::parse, and True NULL infinity x _
Barewords ==
    {Lit.true, Lit.false, Lit.null, Lit.nil, Lit.inf, Lit.neg_inf, Lit.nan,
     Lit.Vector2i, Lit.Color, Lit.SubResource, Lit.ExtResource,
     <<84,114,117,101>>, <<78,85,76,76>>, <<105,110,102,105,110,105,116,121>>,
     <<120>>, <<95>>}

\* a bareword alone is a shape without brackets and arguments
BarewordShapes == {Shape(name, << >>, "bare") : name \in Barewords}

ShapeText(shape) ==
    IF shape.defect = "bare" THEN shape.name
    ELSE ConstructorText(shape.name, shape.args, shape.defect)

\* tokens that are no value: [ ] { } ( ) : , . =
PunctuationTexts ==
    {<<91>>, <<93>>, <<123>>, <<125>>, <<40>>, <<41>>, <<58>>, <<44>>, <<46>>, <<61>>,
     << >>, <<32>>}

NoShape == [name |-> << >>, args |-> << >>, defect |-> "text"]

ParseCall(fn, shape, input) ==
    [fn |-> fn, shape |-> shape, input |-> input, t |-> Tokenizer(input), r |-> None,
     next |-> None]

InitToken ==
    /\ pc = "call"
    /\ tokens = Tokenizer(<< >>)
    /\ header = NoTag
    /\ tags = << >>
    /\ cur = NoTag
    /\ error = ""
    /\ last = NoCall
    /\ file = NoFile
    /\ resource = NoResource
    /\ config = NoConfig
    /\ out = NoFile
    /\ writer = NoWriter
    /\ rewritten = << >>
    /\ tile_call = None
    /\ fmt_call = None
    /\ run_call = None
    /\ image_call = None
    /\ \/ \E text \in NumberTexts(MaxNumberLen), fn \in {"next_token", "Value::parse"} :
             parse_call = ParseCall(fn, NoShape, text)
       \/ \E text \in WideNumberTexts, fn \in {"next_token", "Value::parse"} :
             parse_call = ParseCall(fn, NoShape, text)
       \/ \E text \in ColorTexts(MaxColorLen), fn \in {"next_token", "Value::parse"} :
             parse_call = ParseCall(fn, NoShape, text)
       \/ \E text \in StringTexts(MaxStringLen), fn \in {"next_token", "Value::parse"} :
             parse_call = ParseCall(fn, NoShape, text)
       \/ \E text \in PunctuationTexts :
             parse_call = ParseCall("Value::parse", NoShape, text)
       \/ \E shape \in ConstructorShapes(MaxArgs) :
             parse_call = ParseCall("Value::parse", shape, ShapeText(shape))
       \/ \E shape \in ReferenceShapes \cup BarewordShapes :
             parse_call = ParseCall("Value::parse", shape, ShapeText(shape))

\* the call has returned with p
Returned(p) ==
    /\ parse_call' = [parse_call EXCEPT !.t = p.t, !.r = p.r]
    /\ pc' = "returned"
    /\ UNCHANGED <<tokens, header, tags, cur, error, last, file, resource, config, out,
                   writer, rewritten, tile_call, fmt_call, run_call, image_call>>

CallNextToken ==
    /\ pc = "call"
    /\ parse_call.fn = "next_token"
    /\ Returned(next_token(parse_call.t))

CallValueParse ==
    /\ pc = "call"
    /\ parse_call.fn = "Value::parse"
    /\ Returned(Value_parse(parse_call.t))

\* the caller reads the next byte
ReadNextByte ==
    /\ pc = "returned"
    /\ parse_call' = [parse_call EXCEPT !.t = next_byte(parse_call.t).t,
                                        !.next = Some(next_byte(parse_call.t).b)]
    /\ pc' = "read"
    /\ UNCHANGED <<tokens, header, tags, cur, error, last, file, resource, config, out,
                   writer, rewritten, tile_call, fmt_call, run_call, image_call>>

NextToken == CallNextToken \/ CallValueParse \/ ReadNextByte

SpecToken == InitToken /\ [][NextToken]_vars

----------------------------------------------------------------------------
(* print_to_file, then parse_file and init_from_file on the file written,  *)
(* then print_to_file again                                                *)

\* strings as init_from_file takes them from a file: a, `a\`, `a ]`, `;#`
PlainStrings == {<<97>>, <<97, 92>>, <<97, 32, 93>>, <<59, 35>>}

\* the two chars U+00C3 U+00A9 the tokenizer makes of an e with acute accent
\* in a UTF-8 file
LatinString == <<195, 169>>

\* a string with a double quote, as no file gives it: a"b
QuotedString == <<97, 34, 98>>

\* the uid of the resource, which may be empty, and that of the texture,
\* which may not
Uids == PlainStrings \cup {<< >>, LatinString, QuotedString}

\* the texture path: res://a, res://a b, and res:// with those two chars
TexturePaths == {Res.res_scheme \o <<97>>, Res.res_scheme \o <<97, 32, 98>>,
                 Res.res_scheme \o LatinString}

\* the ids of the texture and of the atlas, and the texture reference
Ids == {<<49, 95, 120>>, <<97, 92>>, LatinString}

\* the object at the time of print_to_file: read from a file, then given the
\* region size and the tiles of the run
Printed(uid, texture_uid, texture_path, texture_id, atlas_id, texture, cfg, layout) ==
    TileSetResource(uid, TextureResource(texture_uid, texture_path, texture_id),
                    TileSetAtlasSource(atlas_id, texture,
                                       Vector2i_from(cfg.tile_set.tile_size), layout))

InitRoundTrip ==
    /\ pc = "updated"
    /\ tokens = Tokenizer(<< >>)
    /\ header = NoTag
    /\ tags = << >>
    /\ cur = NoTag
    /\ error = ""
    /\ last = NoCall
    /\ file = NoFile
    /\ config \in Configs
    /\ \E uid \in Uids, texture_path \in TexturePaths, texture_id \in Ids, atlas_id \in Ids,
          layout \in Layouts(config) :
          \/ resource = Printed(uid, <<117>>, texture_path, texture_id, atlas_id, texture_id,
                                config, layout)
          \/ /\ uid # << >>
             /\ resource = Printed(<<117>>, uid, texture_path, <<49>>, atlas_id, texture_id,
                                   config, layout)
    /\ out = NoFile
    /\ writer = NoWriter
    /\ rewritten = << >>
    /\ NoCalls

\* parse_file on the file written: it is opened and the tokenizer made
Reopen ==
    /\ pc = "printed"
    /\ tokens' = Tokenizer(writer.bytes)
    /\ pc' = "header"
    /\ UNCHANGED <<header, tags, cur, error, last, file, resource, config, out, writer,
                   rewritten, call_vars>>

\* init_from_file on the file parsed; parse_call keeps the object it returns
InitAgain ==
    /\ pc = "parsed"
    /\ parse_call' = [fn |-> "init_from_file", r |-> TileSetResource_init_from_file(file)]
    /\ IF TileSetResource_init_from_file(file).k = "Err"
       THEN pc' = "failed" /\ error' = TileSetResource_init_from_file(file).msg
       ELSE pc' = "reread" /\ error' = error
    /\ UNCHANGED <<tokens, header, tags, cur, last, file, resource, config, out, writer,
                   rewritten, tile_call, fmt_call, run_call, image_call>>

\* the object read is given the same region size and tiles
UpdatedAgain(res) ==
    [res EXCEPT
        !.tile_set_atlas_source.texture_region_size =
            resource.tile_set_atlas_source.texture_region_size,
        !.tile_set_atlas_source.tiles = resource.tile_set_atlas_source.tiles]

\* print_to_file of that object with the same configuration
PrintAgain ==
    /\ pc = "reread"
    /\ rewritten' = write_document(print_to_file(UpdatedAgain(parse_call.r.v), config).header,
                                   print_to_file(UpdatedAgain(parse_call.r.v), config).tags)
    /\ pc' = "reprinted"
    /\ UNCHANGED <<tokens, header, tags, cur, error, last, file, resource, config, out,
                   writer, call_vars>>

NextRoundTrip ==
    \/ PrintToFile
    \/ Reopen
    \/ ParseHeader
    \/ ParseTag
    \/ ParseAssign
    \/ InitAgain
    \/ PrintAgain

SpecRoundTrip == InitRoundTrip /\ [][NextRoundTrip]_vars

----------------------------------------------------------------------------
(* parse_file run on each of the documents *)

InitParse(inputs) ==
    /\ pc = "header"
    /\ tokens \in {Tokenizer(bytes) : bytes \in inputs}
    /\ header = NoTag
    /\ tags = << >>
    /\ cur = NoTag
    /\ error = ""
    /\ last = NoCall
    /\ file = NoFile
    /\ resource = NoResource
    /\ config = NoConfig
    /\ out = NoFile
    /\ writer = NoWriter
    /\ rewritten = << >>
    /\ NoCalls

Init ==
    \/ InitParse(RawInputs)
    \/ InitParse(HeadInputs)
    \/ InitParse(BodyInputs)
    \/ InitParse(FormatInputs)

Next == ParseHeader \/ ParseTag \/ ParseAssign

Spec == Init /\ [][Next]_vars

----------------------------------------------------------------------------
(* The mapper run on each of the parsed files *)

\* the files of whole tags are run with every configuration; the families
\* that vary the fields of one tag, which only init_from_file reads, with the
\* configuration that has no terrain set
FamilyConfigs(i) == IF i = 1 THEN Configs ELSE {cfg \in Configs : cfg.terrain_sets = << >>}

InitMapper ==
    /\ pc = "loaded"
    /\ tokens = Tokenizer(<< >>)
    /\ header = NoTag
    /\ tags = << >>
    /\ cur = NoTag
    /\ error = ""
    /\ last = NoCall
    /\ \E i \in 1..Len(FileFamilies) : file \in FileFamilies[i] /\ config \in FamilyConfigs(i)
    /\ resource = NoResource
    /\ out = NoFile
    /\ writer = NoWriter
    /\ rewritten = << >>
    /\ NoCalls

NextMapper ==
    \/ InitFromFile
    \/ \E layout \in Layouts(config) : UpdateResource(layout)
    \/ PrintToFile

SpecMapper == InitMapper /\ [][NextMapper]_vars

----------------------------------------------------------------------------
(* Properties of parse_file, checked under Spec *)

\* C1: while parse_file runs, no byte is pushed back while a pushback byte is
\* already buffered: the assertion of save_byte never fails, whether it is
\* called from next_token or from TagAssign::parse, and the slot is empty
\* whenever the number scanner stores its lookahead byte into it.
C1_PushbackSlotFree == ~tokens.panicked /\ ~tokens.clobbered

\* C1 witness: a run in which next_token has pushed back after an identifier,
\* the number scanner has stored its lookahead, and TagAssign::parse has pushed
\* back both a quote and the `[` of the next tag
C1_AllPushbackSitesUsed ==
    {"identifier", "number", "assign_quote", "assign_bracket"} \subseteq tokens.sites

\* the bytes of a tag name as C2 describes it: letters, periods and colons
IsNameByte(c) == IsAlphabetic(c) \/ c = 46 \/ c = 58

\* the longest prefix of s made of name bytes
RECURSIVE NameRun(_)
NameRun(s) ==
    IF s # << >> /\ IsNameByte(Head(s)) THEN <<Head(s)>> \o NameRun(Tail(s)) ELSE << >>

\* identifiers joined by single periods or colons, at least one of them
IsCompoundRun(run) ==
    /\ run # << >>
    /\ IsAlphabetic(run[1])
    /\ \E i \in 1..Len(run) : run[i] \in {46, 58}
    /\ \A i \in 1..Len(run) :
          run[i] \in {46, 58} => (i < Len(run) /\ IsAlphabetic(run[i + 1]))

\* what follows the name: `]`, or ` c=1]`
CompoundHeaderRest(rest) ==
    \/ (rest # << >> /\ Head(rest) = 93)
    \/ (Len(rest) >= 5 /\ SubSeq(rest, 1, 5) = <<32, 99, 61, 49, 93>>)

CompoundHeaderFields(rest) ==
    IF Head(rest) = 93 THEN << >> ELSE <<Field(<<99>>, IntegerV(1))>>

CompoundHeaderCase(s, run) ==
    IsCompoundRun(run) /\ CompoundHeaderRest(SubSeq(s, Len(run) + 2, Len(s)))

CompoundHeaderParsed(s, run, r) ==
    /\ r.k = "Some"
    /\ r.v.name = run
    /\ r.v.fields = CompoundHeaderFields(SubSeq(s, Len(run) + 2, Len(s)))

\* C2: Tag::parse, given a tag header whose first identifier is followed by
\* period, colon and identifier tokens before the first key=value pair (`[a.b c=1]`,
\* `[a:b]`), succeeds with the concatenation of those tokens as the tag's name,
\* followed by the fields that come after.
C2_CompoundTagName ==
    (/\ last.fn = "Tag::parse"
     /\ last.input # << >>
     /\ Head(last.input) = 91
     /\ CompoundHeaderCase(last.input, NameRun(Tail(last.input))))
    => CompoundHeaderParsed(last.input, NameRun(Tail(last.input)), last.r)

\* the bytes TagAssign::parse accumulates into the path
IsPathByte(c) == c > 32 /\ c \notin {59, 91, 34, 61}

RECURSIVE SkipBlank(_)
SkipBlank(s) == IF s # << >> /\ Head(s) <= 32 THEN SkipBlank(Tail(s)) ELSE s

RECURSIVE SkipPath(_)
SkipPath(s) == IF s # << >> /\ IsPathByte(Head(s)) THEN SkipPath(Tail(s)) ELSE s

\* after the path comes the end of input or the `[` of the next tag
EndsWithoutEqual(rest) == rest = << >> \/ Head(rest) = 91

\* s is blank, at least one path byte, blank, and then no `=`
PathWithoutEqual(s) ==
    /\ SkipBlank(s) # << >>
    /\ IsPathByte(Head(SkipBlank(s)))
    /\ EndsWithoutEqual(SkipBlank(SkipPath(SkipBlank(s))))

\* C3: TagAssign::parse returns a parse error whenever at least one path
\* character has been accumulated and no `=` follows it before the next tag
\* header `[` or the end of input; an accumulated path is never dropped or merged.
C3_MissingEqualIsError ==
    (last.fn = "TagAssign::parse" /\ PathWithoutEqual(last.input)) => last.r.k = "Err"

\* the header has a `format` field, and the one that is looked up (the first)
\* is not the integer 3
FormatOtherThan3(h) ==
    \E i \in 1..Len(h.fields) :
        /\ h.fields[i].identifier = Lit.format
        /\ h.fields[i].value # IntegerV(3)
        /\ \A j \in 1..(i - 1) : h.fields[j].identifier # Lit.format

NoFormatField(h) == \A i \in 1..Len(h.fields) : h.fields[i].identifier # Lit.format

\* parse_file has ended at its header
RejectedAtHeader ==
    /\ pc = "failed"
    /\ error \in {"could not parse header tag", "unexpected empty file",
                  "unexpected format version"}

\* C4: parse_file rejects a document whose header tag has a `format` field of
\* any value other than the integer 3 (the field the lookup finds, the first of
\* that name), and accepts a header that has no `format` field at all.
C4_FormatVersionGate ==
    header # NoTag =>
        /\ FormatOtherThan3(header) =>
              (pc = "failed" /\ error = "unexpected format version")
        /\ NoFormatField(header) => ~RejectedAtHeader

\* C4 witness: a header with `format=2` has been parsed and the run has ended
\* with the version error
C4_Format2Rejected ==
    /\ pc = "failed"
    /\ error = "unexpected format version"
    /\ \E i \in 1..Len(header.fields) : header.fields[i] = Field(Lit.format, IntegerV(2))

----------------------------------------------------------------------------
(* Properties of the mapper, checked under SpecMapper *)

\* init_from_file has returned Ok / has returned an error
Accepted == pc # "loaded" /\ resource # NoResource
Rejected == pc = "failed" /\ resource = NoResource

\* the positions of the body tags of that name in the file that was read
TagsNamed(name) == {i \in 1..Len(file.tags) : file.tags[i].name = name}

\* the body tag of that name, when there is exactly one
TheTag(name) == file.tags[CHOOSE i \in 1..Len(file.tags) : file.tags[i].name = name]

\* the values of the fields of that name, and the value of the first and the last
FieldValues(fields, name) ==
    {fields[i].value : i \in {j \in 1..Len(fields) : fields[j].identifier = name}}

FirstValue(fields, name) ==
    fields[CHOOSE i \in 1..Len(fields) :
              /\ fields[i].identifier = name
              /\ \A j \in 1..(i - 1) : fields[j].identifier # name].value

LastValue(fields, name) ==
    fields[CHOOSE i \in 1..Len(fields) :
              /\ fields[i].identifier = name
              /\ \A j \in (i + 1)..Len(fields) : fields[j].identifier # name].value

\* the values of the assigns of that path, and the value of the last
AssignValues(assigns, path) ==
    {assigns[i].value : i \in {j \in 1..Len(assigns) : assigns[j].assign = path}}

LastAssignValue(assigns, path) ==
    assigns[CHOOSE i \in 1..Len(assigns) :
               /\ assigns[i].assign = path
               /\ \A j \in (i + 1)..Len(assigns) : assigns[j].assign # path].value

\* C5: init_from_file accepts a document only if its body tags contain exactly
\* one `ext_resource` and exactly one `sub_resource`, in either order: none or
\* two of either, or a body tag of any name other than `ext_resource`,
\* `sub_resource` and `resource`, makes it return an error.
C5_OneTextureOneAtlas ==
    pc # "loaded" =>
        \/ Rejected
        \/ /\ Cardinality(TagsNamed(Res.ext_resource)) = 1
           /\ Cardinality(TagsNamed(Res.sub_resource)) = 1
           /\ \A i \in 1..Len(file.tags) :
                 file.tags[i].name \in {Res.ext_resource, Res.sub_resource, Res.resource}

\* C5 witness: a document whose `sub_resource` comes before its `ext_resource`,
\* with a `resource` tag between them, has been accepted
C5_AtlasBeforeTextureAccepted ==
    /\ Accepted
    /\ Len(file.tags) = 3
    /\ file.tags[1].name = Res.sub_resource
    /\ file.tags[2].name = Res.resource
    /\ file.tags[3].name = Res.ext_resource

\* C6 as stated: init_from_file tolerates at most one `resource` body tag; a
\* document with two or more is rejected.
C6_SecondResourceTagRejected ==
    (pc # "loaded" /\ Cardinality(TagsNamed(Res.resource)) >= 2) => Rejected

\* the file without its `resource` tags
WithoutResourceTags(f) ==
    GodotFile(f.header, SelectSeq(f.tags, LAMBDA tag : tag.name # Res.resource))

\* C6 as amended: init_from_file ignores every `resource` body tag, however
\* many there are: its result, the domain object or the error, is the one it
\* gives for the document without them.
C6_ResourceTagsIgnored ==
    /\ pc = "mapped" =>
          TileSetResource_init_from_file(WithoutResourceTags(file)) = Ok(resource)
    /\ Rejected =>
          TileSetResource_init_from_file(WithoutResourceTags(file)) = Err(error)

\* C6 witness: a document with two `resource` tags has been accepted
C6_TwoResourceTagsAccepted ==
    pc = "mapped" /\ Cardinality(TagsNamed(Res.resource)) = 2

\* C7: init_from_file returns an error when the header tag name is not
\* `gd_resource`, when the header has no `uid` field, or when the header's `uid`
\* field (the one the lookup finds, the first) is not a plain string; otherwise
\* the header's uid string becomes the uid of the domain object.
C7_HeaderUid ==
    pc # "loaded" =>
        \/ Rejected
        \/ /\ file.header.name = Res.gd_resource
           /\ FieldValues(file.header.fields, Res.uid) # {}
           /\ FirstValue(file.header.fields, Res.uid).k = "String"
           /\ resource.uid = FirstValue(file.header.fields, Res.uid).s

\* C7 witness: a header with the uid fields "u2" and "u1", in this order, has
\* been accepted with uid "u2"
C7_FirstUidTaken ==
    /\ Accepted
    /\ Len(file.header.fields) = 2
    /\ file.header.fields[1].value = StringV(<<117, 50>>)
    /\ file.header.fields[2].value = StringV(<<117, 49>>)
    /\ file.header.fields[2].identifier = Res.uid
    /\ resource.uid = <<117, 50>>

\* the tag has a field of that name, and every field of that name is a plain string
StringFieldPresent(tag, name) ==
    /\ FieldValues(tag.fields, name) # {}
    /\ \A v \in FieldValues(tag.fields, name) : v.k = "String"

\* C8: TextureResource::init_from_tag succeeds only if the `ext_resource` tag
\* carries all four fields `type`, `uid`, `path` and `id`, each a plain string,
\* with `type` equal to `Texture2D`; a missing field, a field of another value
\* kind, or another `type` yields an error.
C8_TextureFieldsRequired ==
    pc # "loaded" =>
        \/ Rejected
        \/ /\ \A name \in {Res.type, Res.uid, Res.path, Res.id} :
                 StringFieldPresent(TheTag(Res.ext_resource), name)
           /\ FieldValues(TheTag(Res.ext_resource).fields, Res.type)
                 = {StringV(Res.Texture2D)}
           /\ resource.texture_resource.uid # << >>
           /\ resource.texture_resource.path # << >>
           /\ resource.texture_resource.id # << >>

\* C8 witness: an `ext_resource` tag of five fields, one of them given twice,
\* has been accepted
C8_TextureOfFiveFieldsAccepted ==
    Accepted /\ Len(TheTag(Res.ext_resource).fields) = 5

\* C9: TileSetAtlasSource::init_from_tag succeeds only if the `sub_resource`
\* tag has string fields `type` (equal to `TileSetAtlasSource`) and `id`, and a
\* `texture` assign whose value is an ExtResource reference; a missing `type`,
\* `id` or `texture`, or a `texture` of any other value kind, yields an error.
\* On success the region size is (0, 0) and the tile list is empty.
C9_AtlasFieldsRequired ==
    pc # "loaded" =>
        \/ Rejected
        \/ /\ StringFieldPresent(TheTag(Res.sub_resource), Res.type)
           /\ StringFieldPresent(TheTag(Res.sub_resource), Res.id)
           /\ FieldValues(TheTag(Res.sub_resource).fields, Res.type)
                 = {StringV(Res.TileSetAtlasSource)}
           /\ AssignValues(TheTag(Res.sub_resource).assigns, Res.texture) # {}
           /\ \A v \in AssignValues(TheTag(Res.sub_resource).assigns, Res.texture) :
                 v.k = "ExtResource"
           /\ pc = "mapped" =>
                 /\ resource.tile_set_atlas_source.texture_region_size = Vector2i(0, 0)
                 /\ resource.tile_set_atlas_source.tiles = << >>

\* C9 witness: a `sub_resource` tag that carries a region size of (16, 16) and
\* a tile has been mapped
C9_AtlasWithRegionAndTileMapped ==
    /\ pc = "mapped"
    /\ TheTag(Res.sub_resource).assigns # << >>
    /\ Vector2iV(16, 16) \in
          AssignValues(TheTag(Res.sub_resource).assigns, Res.texture_region_size)
    /\ Len(TheTag(Res.sub_resource).assigns) = 3

\* C10: for every document accepted by init_from_file, the document built by
\* print_to_file carries the input's identifier strings unchanged: the header
\* `uid`, the ext_resource `uid`, `path` and `id`, the sub_resource `id` and the
\* ExtResource id of the `texture` assign are the strings read from the input
\* (of a header's uid fields the first, of a tag's fields or assigns of one
\* name the last); the texture reference is echoed as read, and `sources/0`
\* refers to the sub_resource id.
C10_IdentifiersPreserved ==
    pc = "printed" =>
        /\ Len(out.tags) = 3
        /\ FieldValues(out.header.fields, Res.uid)
              = {FirstValue(file.header.fields, Res.uid)}
        /\ \A name \in {Res.uid, Res.path, Res.id} :
              FieldValues(out.tags[1].fields, name)
                 = {LastValue(TheTag(Res.ext_resource).fields, name)}
        /\ FieldValues(out.tags[2].fields, Res.id)
              = {LastValue(TheTag(Res.sub_resource).fields, Res.id)}
        /\ AssignValues(out.tags[2].assigns, Res.texture)
              = {LastAssignValue(TheTag(Res.sub_resource).assigns, Res.texture)}
        /\ AssignValues(out.tags[3].assigns, Res.sources_0)
              = {SubResourceV(LastValue(TheTag(Res.sub_resource).fields, Res.id).s)}

\* C10 witness: a document has been printed whose `texture` reference is not
\* the id of its `ext_resource`
C10_UnlinkedTexturePrinted ==
    /\ pc = "printed"
    /\ \E v \in AssignValues(out.tags[2].assigns, Res.texture) :
          v.k = "ExtResource" /\ StringV(v.s) \notin FieldValues(out.tags[1].fields, Res.id)

----------------------------------------------------------------------------
(* Properties of print_to_file and of Tile::append_assigns *)

\* the positions in a text where a line starts with `[`, and the tag name there
TagLineStarts(s) == {i \in 1..Len(s) : s[i] = 91 /\ (i = 1 \/ s[i - 1] = 10)}

TagNameEnd(s, i) ==
    CHOOSE j \in (i + 1)..Len(s) :
        s[j] \in {32, 93} /\ \A k \in (i + 1)..(j - 1) : s[k] \notin {32, 93}

TagNameAt(s, i) == SubSeq(s, i + 1, TagNameEnd(s, i) - 1)

RECURSIVE Ascending(_)
Ascending(S) ==
    IF S = {} THEN << >>
    ELSE <<CHOOSE m \in S : \A n \in S : m <= n>>
            \o Ascending(S \ {CHOOSE m \in S : \A n \in S : m <= n})

\* the names of the tag lines of a text, in the order of the text
TagLineNames(s) ==
    [i \in 1..Cardinality(TagLineStarts(s)) |-> TagNameAt(s, Ascending(TagLineStarts(s))[i])]

\* the assigns one tile contributes
TileBlock(t) == append_assigns(t, << >>)

RECURSIVE TileBlocks(_)
TileBlocks(tiles) ==
    IF tiles = << >> THEN << >> ELSE TileBlock(Head(tiles)) \o TileBlocks(Tail(tiles))

\* C11: print_to_file always writes exactly four tags in the order header,
\* `ext_resource`, `sub_resource`, `resource`, whatever the tag order of the
\* file that was read: the header is `gd_resource` with the fields
\* type="TileSet", load_steps=3, format=3 and the uid that was read, in that
\* order; the first two assigns of the `sub_resource` tag are `texture` and
\* `texture_region_size` (the tile size of the configuration), and the assign
\* blocks of the tiles follow in the order of the tile list.
C11_FourTagsInFixedOrder ==
    pc = "printed" =>
        /\ out.header.name = Res.gd_resource
        /\ out.header.fields =
              <<Field(Res.type, StringV(Res.TileSet)),
                Field(Res.load_steps, IntegerV(3)),
                Field(Res.format, IntegerV(3)),
                Field(Res.uid, FirstValue(file.header.fields, Res.uid))>>
        /\ out.header.assigns = << >>
        /\ [i \in 1..Len(out.tags) |-> out.tags[i].name]
              = <<Res.ext_resource, Res.sub_resource, Res.resource>>
        /\ TagLineNames(writer.bytes)
              = <<Res.gd_resource, Res.ext_resource, Res.sub_resource, Res.resource>>
        /\ Len(out.tags[2].assigns) >= 2
        /\ out.tags[2].assigns[1].assign = Res.texture
        /\ out.tags[2].assigns[2]
              = TagAssign(Res.texture_region_size,
                          Vector2iV(config.tile_set.tile_size[1], config.tile_set.tile_size[2]))
        /\ SubSeq(out.tags[2].assigns, 3, Len(out.tags[2].assigns))
              = TileBlocks(resource.tile_set_atlas_source.tiles)

\* C11 witness: a file whose `sub_resource` came before its `ext_resource`
\* has been printed with two tiles
C11_ReorderedFilePrinted ==
    /\ pc = "printed"
    /\ \E i, j \in 1..Len(file.tags) :
          i < j /\ file.tags[i].name = Res.sub_resource /\ file.tags[j].name = Res.ext_resource
    /\ Len(resource.tile_set_atlas_source.tiles) = 2
    /\ Len(out.tags[2].assigns) > 3

\* the path "{x}:{y}/0" of the tile positions, written out
PathOfPosition(position) ==
    CASE position = Vector2i(0, 0) -> <<48, 58, 48, 47, 48>>
      [] position = Vector2i(12, 1) -> <<49, 50, 58, 49, 47, 48>>

\* the peering bits of a tile in the direction order of the source, with
\* their path pieces, and the populated ones among them
PeeringDirections(bit) ==
    <<[option |-> bit.bottom_right_side, key |-> Res.bottom_right_side],
      [option |-> bit.bottom_side, key |-> Res.bottom_side],
      [option |-> bit.bottom_left_side, key |-> Res.bottom_left_side],
      [option |-> bit.top_left_side, key |-> Res.top_left_side],
      [option |-> bit.top_side, key |-> Res.top_side],
      [option |-> bit.top_right_side, key |-> Res.top_right_side]>>

IsPopulated(direction) == direction.option # None

PopulatedDirections(bit) == SelectSeq(PeeringDirections(bit), IsPopulated)

OnlyPosition(t) ==
    t.terrain_set = None /\ t.terrain = None /\ PopulatedDirections(t.terrains_peering_bit) = << >>

\* C12: append_assigns for a tile that has only a position appends exactly
\* one assign, with the path `{x}:{y}/0` and the integer value 0, and leaves
\* the assigns already in the list unchanged.
C12_PositionOnlyTile ==
    (pc = "appended" /\ OnlyPosition(tile_call.tile)) =>
        tile_call.after
            = tile_call.before
                 \o <<TagAssign(PathOfPosition(tile_call.tile.position), IntegerV(0))>>

\* C12 witness: a tile at (12, 1) with only a position has been appended to
\* a list that held two assigns
C12_PositionOnlyTileAppended ==
    /\ pc = "appended"
    /\ OnlyPosition(tile_call.tile)
    /\ tile_call.tile.position = Vector2i(12, 1)
    /\ Len(tile_call.before) = 2
    /\ Len(tile_call.after) = 3

TwoBitTerrainTile(t) ==
    /\ t.terrain_set # None
    /\ t.terrain # None
    /\ Len(PopulatedDirections(t.terrains_peering_bit)) = 2

\* the assigns of a tile in key order: occupancy, terrain_set, terrain
TerrainAssigns(t) ==
    <<TagAssign(PathOfPosition(t.position), IntegerV(0)),
      TagAssign(PathOfPosition(t.position) \o Res.terrain_set, IntegerV(t.terrain_set.v)),
      TagAssign(PathOfPosition(t.position) \o Res.terrain, IntegerV(t.terrain.v))>>

\* the assigns of the populated peering bits, in direction order
PeeringAssigns(t) ==
    [i \in 1..Len(PopulatedDirections(t.terrains_peering_bit)) |->
        TagAssign(PathOfPosition(t.position) \o PopulatedDirections(t.terrains_peering_bit)[i].key,
                  IntegerV(PopulatedDirections(t.terrains_peering_bit)[i].option.v))]

\* C13 as stated: a tile with a terrain set, a terrain and exactly two
\* populated peering bits emits exactly four assigns.
C13_FourAssigns ==
    (pc = "appended" /\ TwoBitTerrainTile(tile_call.tile)) =>
        Len(tile_call.after) = Len(tile_call.before) + 4

\* C13, amended: such a tile emits exactly five assigns, in the key order
\* occupancy, terrain_set, terrain, then the two populated peering bits in the
\* direction order bottom_right_side, bottom_side, bottom_left_side,
\* top_left_side, top_side, top_right_side; the unset directions emit nothing.
C13_FiveAssignsInKeyOrder ==
    (pc = "appended" /\ TwoBitTerrainTile(tile_call.tile)) =>
        /\ Len(tile_call.after) = Len(tile_call.before) + 5
        /\ tile_call.after
              = tile_call.before \o TerrainAssigns(tile_call.tile)
                    \o PeeringAssigns(tile_call.tile)

\* C13 witness: a tile with terrain set 0, terrain 1 and the peering bits
\* top_side and bottom_side (only) has been appended
C13_TwoBitTileAppended ==
    /\ pc = "appended"
    /\ TwoBitTerrainTile(tile_call.tile)
    /\ tile_call.tile.terrains_peering_bit.bottom_side # None
    /\ tile_call.tile.terrains_peering_bit.top_side # None
    /\ Len(tile_call.after) = Len(tile_call.before) + 5

\* "terrain_set_N" and "terrain_set_N/terrain_M" for indexes below ten
SetPath(n) == Res.terrain_set_ \o <<48 + n>>
TerrainPath(n, m) == SetPath(n) \o Res.terrain_ \o <<48 + m>>

\* Color(0, 0, 0, 1)
OpaqueBlack ==
    ColorRgbaV(Finite(FALSE, 0, 0), Finite(FALSE, 0, 0), Finite(FALSE, 0, 0),
               Finite(FALSE, 1, 0))

\* the assigns of the terrain set at position n (from 1) of the configuration
SetAssigns(cfg, n) ==
    <<TagAssign(SetPath(n - 1) \o Res.mode, IntegerV(2))>>
        \o Flatten([m \in 1..Len(cfg.terrain_sets[n].terrains) |->
                      <<TagAssign(TerrainPath(n - 1, m - 1) \o Res.name,
                                  StringV(cfg.terrain_sets[n].terrains[m].name)),
                        TagAssign(TerrainPath(n - 1, m - 1) \o Res.color, OpaqueBlack)>>])

RECURSIVE TerrainCount(_)
TerrainCount(sets) ==
    IF sets = << >> THEN 0 ELSE Len(Head(sets).terrains) + TerrainCount(Tail(sets))

\* C14: the `resource` tag built by print_to_file has, in order, `tile_shape`
\* = 3, `tile_offset_axis` = 1, `tile_size` = the region size; then for each
\* configured terrain set N in list order one `terrain_set_N/mode` assign and,
\* for each of its terrains M in list order, a `terrain_set_N/terrain_M/name`
\* and a `terrain_set_N/terrain_M/color` assign (always Color(0, 0, 0, 1));
\* and `sources/0` = SubResource(atlas id) last.  With S sets of T terrains
\* in total the tag has 4 + S + 2*T assigns.
C14_ResourceTagAssigns ==
    pc = "printed" =>
        /\ out.tags[3].name = Res.resource
        /\ out.tags[3].fields = << >>
        /\ out.tags[3].assigns
              = <<TagAssign(Res.tile_shape, IntegerV(3)),
                  TagAssign(Res.tile_offset_axis, IntegerV(1)),
                  TagAssign(Res.tile_size,
                            Vector2iV(resource.tile_set_atlas_source.texture_region_size.x,
                                      resource.tile_set_atlas_source.texture_region_size.y))>>
                 \o Flatten([n \in 1..Len(config.terrain_sets) |-> SetAssigns(config, n)])
                 \o <<TagAssign(Res.sources_0,
                                SubResourceV(resource.tile_set_atlas_source.id))>>
        /\ Len(out.tags[3].assigns)
              = 4 + Len(config.terrain_sets) + 2 * TerrainCount(config.terrain_sets)

\* C14 witness: a resource tag has been built for two terrain sets, the
\* second of two terrains, with twelve assigns
C14_TwoTerrainSetsPrinted ==
    /\ pc = "printed"
    /\ Len(config.terrain_sets) = 2
    /\ Len(config.terrain_sets[2].terrains) = 2
    /\ Len(config.terrain_sets[1].terrains) = 1
    /\ Len(out.tags[3].assigns) = 12

----------------------------------------------------------------------------
(* Properties of the writer, checked under SpecWriter *)

\* the text of lines, each ended by a line feed
RECURSIVE JoinLines(_)
JoinLines(lines) ==
    IF lines = << >> THEN << >> ELSE Head(lines) \o <<10>> \o JoinLines(Tail(lines))

\* the line `[name field=value ...]` of a tag
TagLine(tag) ==
    <<91>> \o tag.name
        \o Flatten([i \in 1..Len(tag.fields) |->
                       <<32>> \o tag.fields[i].identifier \o <<61>>
                           \o value_godot_fmt(tag.fields[i].value)])
        \o <<93>>

\* the lines `path = value` of the assigns of a tag
AssignLines(tag) ==
    [i \in 1..Len(tag.assigns) |->
        tag.assigns[i].assign \o <<32, 61, 32>> \o value_godot_fmt(tag.assigns[i].value)]

\* the lines of a document: the header, then an empty line before every tag
DocumentLines(h, tag_list) ==
    <<TagLine(h)>> \o AssignLines(h)
        \o Flatten([i \in 1..Len(tag_list) |->
                       <<<< >>, TagLine(tag_list[i])>> \o AssignLines(tag_list[i])])

\* C15: the writer's output for a header followed by any sequence of
\* write_tag calls is the header line first, with nothing before it, then for
\* each tag, in call order, one empty line, the line `[name field=value ...]`
\* and exactly one `path = value` line per assign in list order; nothing else
\* is written.  (After every call the text is that of the calls made so far.)
C15_WriterOutput ==
    writer.created => writer.bytes = JoinLines(DocumentLines(out.header, out.tags))

\* C15 witness: two tags have been written after the header, the second
\* with two assigns
C15_TwoTagsWritten ==
    /\ pc = "writing"
    /\ Len(out.tags) = 2
    /\ Len(out.tags[2].assigns) = 2
    /\ Len(out.tags[1].fields) = 1

\* C19 as stated: for every document text produced by the writer, parsing it
\* with parse_file and writing the parsed header and body tags back yields
\* text that is byte-for-byte identical: the parse does not fail, and the
\* second text is the first.
C19_RewrittenTextIdentical ==
    /\ pc # "failed"
    /\ pc = "rewritten" => rewritten = writer.bytes

----------------------------------------------------------------------------
(* The renderers on their own *)

\* a magnitude times ten plus a carry, limb by limb from the least significant
RECURSIVE MagTimesTenPlus(_, _)
MagTimesTenPlus(mag, carry) ==
    IF mag = << >> THEN << >>
    ELSE MagTimesTenPlus(SubSeq(mag, 1, Len(mag) - 1), (mag[Len(mag)] * 10 + carry) \div 32768)
            \o <<(mag[Len(mag)] * 10 + carry) % 32768>>

\* the magnitude a run of decimal digits denotes, from the most significant digit
RECURSIVE MagOfDigits(_, _)
MagOfDigits(ds, acc) ==
    IF ds = << >> THEN acc
    ELSE MagOfDigits(Tail(ds), MagTimesTenPlus(acc, Head(ds) - 48))

\* the text without its leading '-'
Unsigned(s) == IF s # << >> /\ Head(s) = 45 THEN Tail(s) ELSE s

AllDigits(s) == \A i \in 1..Len(s) : s[i] \in 48..57

\* s is the canonical base-10 text of n
CanonicalDecimal(s, n) ==
    /\ s # << >>
    /\ (Head(s) = 45) <=> n.neg
    /\ Unsigned(s) # << >>
    /\ AllDigits(Unsigned(s))
    /\ Len(Unsigned(s)) > 1 => Unsigned(s)[1] # 48
    /\ MagOfDigits(Unsigned(s), <<0, 0, 0, 0, 0>>) = n.mag

\* C16: for every 64-bit signed integer, 0 and -2^63 included, the integer
\* renderer writes the canonical base-10 text (a '-' exactly when the value is
\* negative, then the digits of the magnitude without leading zeros), with no
\* arithmetic overflow and no out-of-range buffer index on the way.
C16_CanonicalInteger ==
    (pc = "rendered" /\ fmt_call.kind = "i64") =>
        /\ ~fmt_call.run.v.panicked
        /\ ~fmt_call.run.v.overflowed
        /\ CanonicalDecimal(fmt_call.run.v.bytes, fmt_call.value)

\* i64::MIN was rendered as -9223372036854775808
C16_MinimumRendered ==
    /\ pc = "rendered"
    /\ fmt_call.kind = "i64"
    /\ fmt_call.value = I64_MIN
    /\ fmt_call.run.v.bytes = <<45>> \o I64MinDigits

IsZeroDouble(d) == d.cls = "finite" /\ d.m = 0

\* a finite whole number other than zero
IsWhole(d) == d.cls = "finite" /\ d.m # 0 /\ d.e >= 0

\* a whole number below 10^16
IsShortWhole(d) == IsWhole(d) /\ NumDigits(d.m) + d.e <= 16

\* the integer digits of a whole number, with its sign
IntegerDigits(d) == (IF d.neg THEN <<45>> ELSE << >>) \o ToDecimal(d.m) \o Zeros(d.e)

RenderedAs(kind) == pc \in {"rendered", "reparsed"} /\ fmt_call.kind = kind

RenderedDouble == RenderedAs("Value") /\ fmt_call.value.k = "Double"

F64Text(bytes, d) ==
    /\ IsZeroDouble(d) => bytes = <<48>>
    /\ d.cls = "inf" => bytes = Lit.inf
    /\ d.cls = "neg_inf" => bytes = Lit.neg_inf
    /\ d.cls = "nan" => bytes = Lit.nan
    /\ IsShortWhole(d) => bytes = IntegerDigits(d)

\* the text of a double Value
DoubleValueText(bytes, d) ==
    /\ IsZeroDouble(d) => bytes = <<48, 46, 48>>
    /\ d.cls = "inf" => bytes = Lit.inf
    /\ d.cls = "neg_inf" => bytes = Lit.neg_inf
    /\ d.cls = "nan" => bytes = Lit.nan
    /\ IsShortWhole(d) => bytes = IntegerDigits(d) \o <<46, 48>>

SameDouble(a, b) == a = b \/ (IsZeroDouble(a) /\ IsZeroDouble(b))

SameComponents(a, b) == \A i \in 1..4 : SameDouble(a[i], b[i])

\* equality of two values, variant by variant
SameValue(a, b) ==
    /\ a.k = b.k
    /\ CASE a.k = "Double" -> SameDouble(a.d, b.d)
         [] a.k = "Color" ->
                /\ a.c.k = b.c.k
                /\ IF a.c.k = "Rgba" THEN SameComponents(a.c.rgba, b.c.rgba) ELSE a.c = b.c
         [] OTHER -> a = b

\* a whole-number double that came back as the integer of the same number
WholeAsInteger(a, b) ==
    /\ a.k = "Double"
    /\ IsZeroDouble(a.d) \/ IsWhole(a.d)
    /\ b.k = "Integer"
    /\ IntToDouble(b.v) = a.d

\* C18: for every Value of every variant, rendering it and parsing the text
\* with Value::parse yields a value equal to the original, except that a
\* whole-number double may come back as the integer of the same number.
C18_RenderParseRoundTrip ==
    (pc = "reparsed" /\ fmt_call.kind = "Value") =>
        \/ SameValue(fmt_call.value, fmt_call.parsed.v)
        \/ WholeAsInteger(fmt_call.value, fmt_call.parsed.v)

----------------------------------------------------------------------------
(* try_run *)

\* the steps of try_run before print_to_file, in the order of the code
StepsBeforePrint ==
    <<"load_config", "tile_set_path", "resource_path", "open", "parse_file", "init_from_file",
      "load_tiles", "load_terrain_tiles", "write_tile_set_image">>

\* a path that starts with res://
IsGodotPath(path) == Len(path) >= 6 /\ SubSeq(path, 1, 6) = <<114, 101, 115, 58, 47, 47>>

\* the run ended before print_to_file was called
EndedBeforePrint ==
    /\ pc \in {"failed", "panicked"}
    /\ error \notin {"could not create the resource file", "could not write the resource file",
                     "could not save the image"}

\* C20: in every run the destination resource file is created only after
\* parse_file on the source file and TileSetResource::init_from_file have both
\* succeeded, and after tile loading, terrain loading and the texture-path
\* check have succeeded; when one of those steps fails, no file is created.
C20_CreatedOnlyAfterSuccess ==
    /\ writer.created =>
          /\ Len(run_call.steps) >= Len(StepsBeforePrint)
          /\ SubSeq(run_call.steps, 1, Len(StepsBeforePrint)) = StepsBeforePrint
          /\ file = GodotFile(header, tags)
          /\ resource # NoResource
          /\ IsGodotPath(resource.texture_resource.path)
    /\ EndedBeforePrint => ~writer.created

\* a run went through: the resource file was created and the image saved
C20_RunCompleted ==
    /\ pc = "done"
    /\ writer.created
    /\ run_call.steps = StepsBeforePrint \o <<"save">>

\* the whole text of the document print_to_file built
WholeDocument == write_document(out.header, out.tags)

\* the destination is as it was, or holds the whole document
AbsentOrComplete == ~writer.created \/ writer.bytes = WholeDocument

\* C21: when a step of a run fails, a write error while the resource file is
\* emitted included, the run ends with an error and the destination resource
\* file is absent or unchanged, or completely written: never partial.
C21_NoPartialOutput ==
    /\ pc \in {"failed", "panicked"} => AbsentOrComplete
    /\ ~AbsentOrComplete => pc = "failed"

----------------------------------------------------------------------------
(* write_tile_set_image *)

\* the call returned a layout
LayoutReturned == pc = "laid" /\ ~image_call.result.v.panicked

\* C22: for every configuration and set of loaded tiles and terrain tiles, the
\* tile list returned by write_tile_set_image has no two tiles with the same
\* position.
C22_UniquePositions ==
    LayoutReturned =>
        \A i, j \in 1..Len(image_call.result.v.layout) :
            i # j => image_call.result.v.layout[i].position
                        # image_call.result.v.layout[j].position

\* the entry is inside the grid of an image of that size
InsideGrid(entry, tile_size, image_size) ==
    /\ 0 <= entry.position.x /\ entry.position.x < image_size \div tile_size[1]
    /\ 0 <= entry.position.y /\ entry.position.y < image_size \div tile_size[2]

\* the layout is the fixed tiles at their positions, then the terrain tiles
\* one by one on cells without a fixed tile, all inside the grid
LayoutOfCall(call, layout, image_size) ==
    /\ Len(layout) = Len(call.positions) + Len(call.terrain_tiles)
    /\ \A i \in 1..Len(call.positions) :
          layout[i] = FixedTile(call.positions[i][1], call.positions[i][2])
    /\ \A i \in 1..Len(call.terrain_tiles) :
          /\ layout[Len(call.positions) + i].terrain_set
                = Some(call.terrain_tiles[i].terrain.terrain_set)
          /\ layout[Len(call.positions) + i].terrain
                = Some(call.terrain_tiles[i].terrain.terrain)
          /\ layout[Len(call.positions) + i].terrains_peering_bit
                = call.terrain_tiles[i].terrains_peering_bit
          /\ \A j \in 1..Len(call.positions) :
                layout[Len(call.positions) + i].position # layout[j].position
    /\ \A i \in 1..Len(layout) : InsideGrid(layout[i], call.tile_size, image_size)

\* C29: for every list of fixed tiles and terrain tiles with a tile width and
\* height of at least 1, write_tile_set_image returns a layout with one entry
\* per fixed tile at its configured position, then one entry per terrain tile
\* on a cell no fixed tile occupies, every position inside the image grid.
C29_LayoutComplete ==
    (pc = "laid" /\ image_call.tile_size[1] >= 1 /\ image_call.tile_size[2] >= 1) =>
        /\ ~image_call.result.v.panicked
        /\ LayoutOfCall(image_call, image_call.result.v.layout,
                        image_call.result.v.image_size)

----------------------------------------------------------------------------
(* Properties of next_token and Value::parse, checked under SpecToken *)

\* the byte after the first n bytes of s, as the next read gives it
ByteAfter(s, n) == IF n < Len(s) THEN s[n + 1] ELSE NoByte

\* the call of fn on a text has returned
ReturnedFrom(fn) == pc \in {"returned", "read"} /\ parse_call.fn = fn

\* the longest prefix of s made of hexadecimal digits
RECURSIVE HexRun(_)
HexRun(s) ==
    IF s # << >> /\ IsHexDigit(Head(s)) THEN <<Head(s)>> \o HexRun(Tail(s)) ELSE << >>

IsColorText(s) == s # << >> /\ Head(s) = 35

\* the color literal at the start of s
ColorLiteral(s) == <<35>> \o HexRun(Tail(s))

\* C23: for every input in which `#` is followed by zero or more hexadecimal
\* digits, next_token yields one color token whose text is `#` and those
\* digits, whether the literal is ended by a byte that is no hexadecimal digit
\* (the byte is the next one read) or by the end of input; Value::parse turns
\* the token into the html color holding the same text.
C23_ColorLiteralToken ==
    IsColorText(parse_call.input) =>
        /\ ReturnedFrom("next_token") =>
              parse_call.r = TextTok("Color", ColorLiteral(parse_call.input))
        /\ ReturnedFrom("Value::parse") =>
              parse_call.r = ColorHtmlV(ColorLiteral(parse_call.input))
        /\ pc = "read" =>
              parse_call.next
                 = Some(ByteAfter(parse_call.input, Len(ColorLiteral(parse_call.input))))

\* the opening of a quoted string at the start of s: `"`, `@"` or `&"`
Opening(s) ==
    IF s # << >> /\ Head(s) = 34 THEN 1
    ELSE IF Len(s) >= 2 /\ s[1] \in {64, 38} /\ s[2] = 34 THEN 2
    ELSE 0

\* the index of the first double quote of s at or after i that no backslash
\* escapes, 0 when there is none
RECURSIVE ClosingQuote(_, _)
ClosingQuote(s, i) ==
    IF i > Len(s) THEN 0
    ELSE IF s[i] = 34 THEN i
    ELSE IF s[i] = 92 THEN ClosingQuote(s, i + 2)
    ELSE ClosingQuote(s, i + 1)

HasEscape(s) == \E i \in 1..Len(s) : s[i] = 92

\* the token of a quoted string whose bytes after the opening are body and
\* whose closing quote is at index close of body
StringTokenOf(s, body, close) ==
    TextTok(IF Opening(s) = 2 THEN "StringName" ELSE "String", SubSeq(body, 1, close - 1))

QuotedAsWritten(s, body, close, r) ==
    /\ close = 0 => r.k = "Err"
    /\ (close > 0 /\ HasEscape(SubSeq(body, 1, close - 1))) => r = StringTokenOf(s, body, close)

QuotedBody(s) == SubSeq(s, Opening(s) + 1, Len(s))

\* C24: for a quoted string (plain, or a name-string after `@` or `&`) whose
\* content has backslash escape sequences, an escaped double quote among them,
\* next_token returns one token whose text is exactly the bytes between the
\* opening and the closing quote, escape sequences undecoded and no byte
\* dropped; a string with no closing quote before the end of input is an error.
C24_StringKeptVerbatim ==
    (ReturnedFrom("next_token") /\ Opening(parse_call.input) > 0) =>
        QuotedAsWritten(parse_call.input, QuotedBody(parse_call.input),
                        ClosingQuote(QuotedBody(parse_call.input), 1), parse_call.r)

\* the bytes a through b of s are digits
DigitsIn(s, a, b) == \A k \in a..b : IsDigit(s[k])

SignLen(s) == IF s # << >> /\ Head(s) = 45 THEN 1 ELSE 0

\* s[i+1..j] is nothing, or a `.` and digits
IsFraction(s, i, j) == j = i \/ (j > i /\ s[i + 1] = 46 /\ DigitsIn(s, i + 2, j))

\* s[j+1..n] is nothing, or an `e`, at most one sign directly after it, and digits
IsExponent(s, j, n) ==
    \/ n = j
    \/ /\ n > j
       /\ s[j + 1] = 101
       /\ \/ DigitsIn(s, j + 2, n)
          \/ (n >= j + 2 /\ s[j + 2] \in {43, 45} /\ DigitsIn(s, j + 3, n))

\* the first n bytes of s are `-`? digits* (`.` digits*)? (`e` sign? digits*)?
IsLiteralPrefix(s, n) ==
    \E i \in SignLen(s)..n, j \in SignLen(s)..n :
        /\ i <= j
        /\ DigitsIn(s, SignLen(s) + 1, i)
        /\ IsFraction(s, i, j)
        /\ IsExponent(s, j, n)

\* the length of the longest such prefix
LongestLiteral(s) ==
    CHOOSE n \in 1..Len(s) :
        /\ IsLiteralPrefix(s, n)
        /\ \A m \in (n + 1)..Len(s) : ~IsLiteralPrefix(s, m)

HasPointOrE(text) == \E k \in 1..Len(text) : text[k] \in {46, 101}

\* a decimal integer text: digits after the sign, of a value within i64
IsIntegerText(text) ==
    /\ Len(text) > SignLen(text)
    /\ DigitsIn(text, SignLen(text) + 1, Len(text))
    /\ \/ Len(text) - SignLen(text) < 19
       \/ LexLeq(SubSeq(text, SignLen(text) + 1, Len(text)),
                 IF SignLen(text) = 1 THEN I64MinDigits ELSE I64MaxDigits)

\* a decimal double text: a digit before the exponent, a digit in the exponent
IsDoubleText(text) ==
    /\ \E k \in 1..Len(text) :
          IsDigit(text[k]) /\ \A m \in 1..k : text[m] # 101
    /\ \A k \in 1..Len(text) : text[k] = 101 => (k < Len(text) /\ IsDigit(text[Len(text)]))

\* the token next_token owes for the literal text
NumberTokenKind(text) ==
    IF HasPointOrE(text) THEN (IF IsDoubleText(text) THEN "Double" ELSE "Err")
    ELSE (IF IsIntegerText(text) THEN "Integer" ELSE "Err")

NumberTokenOf(text, r) ==
    /\ r.k = NumberTokenKind(text)
    /\ r.k = "Double" => r = parse_f64(text)
    /\ r.k = "Integer" => r = parse_i64(text)

IsNumberText(s) == s # << >> /\ (Head(s) = 45 \/ IsDigit(Head(s)))

\* C25: for every input starting with `-` or a digit, the number scanner
\* consumes the longest prefix its states allow (digits, an optional `.` and
\* digits, an optional `e` with at most one sign directly after it), leaves
\* the first byte that cannot extend the literal as the next byte read,
\* returns a double token exactly when the consumed text has a `.` or an `e`
\* and an integer token otherwise, and returns an error when the text is no
\* valid number (`-`, `1e`, `1e+`) or does not fit in 64 bits.
C25_NumberScanner ==
    (ReturnedFrom("next_token") /\ IsNumberText(parse_call.input)) =>
        /\ NumberTokenOf(SubSeq(parse_call.input, 1, LongestLiteral(parse_call.input)),
                         parse_call.r)
        /\ pc = "read" =>
              parse_call.next
                 = Some(ByteAfter(parse_call.input, LongestLiteral(parse_call.input)))

\* C25 witness: `1e+1+` has been scanned: a double token of 1e+1, the second
\* sign the next byte read
C25_SecondSignLeft ==
    /\ pc = "read"
    /\ parse_call.fn = "next_token"
    /\ parse_call.input = <<49, 101, 43, 49, 43>>
    /\ parse_call.r = [k |-> "Double", d |-> Finite(FALSE, 1, 1)]
    /\ parse_call.next = Some(43)

\* the arguments that are integer literals, and their values
IsIntegerArg(arg) == arg \in {<<49>>, <<45, 50>>}

IntegerArg(arg) == IF arg = <<49>> THEN 1 ELSE -2

\* the arguments that are number literals, and their values as doubles
IsNumberArg(arg) == IsIntegerArg(arg) \/ arg = <<50, 46, 53>>

DoubleArg(arg) ==
    IF arg = <<50, 46, 53>> THEN Finite(FALSE, 25, -1)
    ELSE Finite(IntegerArg(arg) < 0, IF IntegerArg(arg) < 0 THEN 2 ELSE 1, 0)

\* the text of the shape is `Name(a, b, ..)` with brackets and commas in place
Punctuated(shape) ==
    shape.defect = "none" \/ (shape.defect = "no_comma" /\ Len(shape.args) < 2)

\* the texts Value::parse owes a value for
IsLiteralShape(shape) ==
    CASE shape.defect = "bare" ->
            shape.name \in {Lit.true, Lit.false, Lit.null, Lit.nil, Lit.inf, Lit.neg_inf,
                            Lit.nan}
      [] shape.name = Lit.Vector2i ->
            /\ Punctuated(shape)
            /\ Len(shape.args) = 2
            /\ \A i \in 1..Len(shape.args) : IsIntegerArg(shape.args[i])
      [] shape.name = Lit.Color ->
            /\ Punctuated(shape)
            /\ Len(shape.args) = 4
            /\ \A i \in 1..Len(shape.args) : IsNumberArg(shape.args[i])
      [] OTHER -> Punctuated(shape) /\ shape.args = <<(<<34, 97, 34>>)>>

\* the value of such a text
LiteralValue(shape) ==
    CASE shape.name = Lit.true -> BoolV(TRUE)
      [] shape.name = Lit.false -> BoolV(FALSE)
      [] shape.name \in {Lit.null, Lit.nil} -> NullV
      [] shape.name = Lit.inf -> DoubleV(Inf)
      [] shape.name = Lit.neg_inf -> DoubleV(NegInf)
      [] shape.name = Lit.nan -> DoubleV(NaN)
      [] shape.name = Lit.Vector2i ->
            Vector2iV(IntegerArg(shape.args[1]), IntegerArg(shape.args[2]))
      [] shape.name = Lit.Color ->
            ColorRgbaV(DoubleArg(shape.args[1]), DoubleArg(shape.args[2]),
                       DoubleArg(shape.args[3]), DoubleArg(shape.args[4]))
      [] shape.name = Lit.SubResource -> SubResourceV(<<97>>)
      [] OTHER -> ExtResourceV(<<97>>)

ValueOwed(shape, r) ==
    IF IsLiteralShape(shape) THEN r = LiteralValue(shape) ELSE r.k = "Err"

\* C28: Value::parse accepts only its literals and returns an error for
\* everything else: `Vector2i(..)` with other than 2 arguments or with an
\* argument that is no integer, `Color(..)` with other than 4 arguments
\* (integers widened to doubles), an argument list with a missing or trailing
\* comma or a missing parenthesis, every bareword other than true, false,
\* null, nil, inf, neg_inf, nan and the four constructor names, and every
\* token that starts no value.
C28_ClosedLiteralSet ==
    ReturnedFrom("Value::parse") =>
        /\ parse_call.shape # NoShape => ValueOwed(parse_call.shape, parse_call.r)
        /\ parse_call.input \in PunctuationTexts => parse_call.r.k = "Err"

\* C28 witness: `Color(1, 2.5, -2, 1,)` has been refused for its trailing comma
C28_TrailingCommaRefused ==
    /\ pc = "returned"
    /\ parse_call.fn = "Value::parse"
    /\ parse_call.shape
          = Shape(Lit.Color, <<(<<49>>), (<<50, 46, 53>>), (<<45, 50>>), (<<49>>)>>,
                  "trailing_comma")
    /\ parse_call.r.k = "Err"

----------------------------------------------------------------------------
(* Properties of Tag::parse and of the tag loop of parse_file, checked     *)
(* under Spec                                                              *)

\* the tokens of a tag header text, through its `]` or to the first result
\* that is no token (the end of input, an error)
RECURSIVE HeaderTokens(_, _)
HeaderTokensAt(tk, acc) ==
    IF tk.r.k \in {"None", "Err", "BracketClose"} THEN Append(acc, tk.r)
    ELSE HeaderTokens(tk.t, Append(acc, tk.r))

HeaderTokens(t, acc) == HeaderTokensAt(next_token(t), acc)

\* the tokens that are a value by themselves, and the value
IsValueToken(tok) == tok.k \in {"Integer", "Double", "String", "StringName", "Color"}

ValueOfToken(tok) ==
    CASE tok.k = "Integer" -> IntegerV(tok.v)
      [] tok.k = "Double" -> DoubleV(tok.d)
      [] tok.k = "String" -> StringV(tok.s)
      [] tok.k = "StringName" -> StringNameV(tok.s)
      [] OTHER -> ColorHtmlV(tok.s)

\* toks[i..i+2] is identifier `=` value
IsFieldAt(toks, i) ==
    /\ i + 2 <= Len(toks)
    /\ toks[i].k = "Identifier"
    /\ toks[i + 1].k = "Equal"
    /\ IsValueToken(toks[i + 2])

\* from the i-th token on there are only fields, up to the `]`
RECURSIVE OnlyFieldsFrom(_, _)
OnlyFieldsFrom(toks, i) ==
    /\ i <= Len(toks)
    /\ \/ toks[i].k = "BracketClose"
       \/ (IsFieldAt(toks, i) /\ OnlyFieldsFrom(toks, i + 3))

RECURSIVE FieldsFrom(_, _)
FieldsFrom(toks, i) ==
    IF toks[i].k = "BracketClose" THEN << >>
    ELSE <<Field(toks[i].s, ValueOfToken(toks[i + 2]))>> \o FieldsFrom(toks, i + 3)

\* `[`, a name and a first field have been read
FirstFieldRead(toks) ==
    /\ Len(toks) >= 5
    /\ toks[1].k = "BracketOpen"
    /\ toks[2].k = "Identifier"
    /\ IsFieldAt(toks, 3)

\* what Tag::parse owes once the first field has been read
AfterFirstField(toks, r) ==
    IF OnlyFieldsFrom(toks, 6)
    THEN r = Some(Tag(toks[2].s, FieldsFrom(toks, 3), << >>))
    ELSE r.k = "Err"

\* s without the blanks and `;` comments it starts with
RECURSIVE SkipLine(_)
SkipLine(s) ==
    IF s = << >> THEN s ELSE IF Head(s) = 10 THEN Tail(s) ELSE SkipLine(Tail(s))

RECURSIVE SkipBlanksAndComments(_)
SkipBlanksAndComments(s) ==
    IF s = << >> THEN s
    ELSE IF Head(s) <= 32 THEN SkipBlanksAndComments(Tail(s))
    ELSE IF Head(s) = 59 THEN SkipBlanksAndComments(SkipLine(Tail(s)))
    ELSE s

\* the text starts a tag header that no `]` closes
OpenedAndNotClosed(s) ==
    /\ SkipBlanksAndComments(s) # << >>
    /\ Head(SkipBlanksAndComments(s)) = 91
    /\ \A i \in 1..Len(s) : s[i] # 93

TagParsedAsOwed(s, r) ==
    /\ SkipBlanksAndComments(s) = << >> => r = None
    /\ OpenedAndNotClosed(s) => r.k = "Err"
    /\ FirstFieldRead(HeaderTokens(Tokenizer(s), << >>)) =>
          AfterFirstField(HeaderTokens(Tokenizer(s), << >>), r)

\* C26: Tag::parse returns None, and no error, when the input ends before any
\* further token; it returns an error when the input ends after `[` and
\* before the closing `]`; once a first key=value field has been read, it
\* returns an error for every later token before `]` that is not an
\* identifier followed by `=` and a value, and otherwise the tag whose name is
\* the identifier read before the first field, nothing added to it.
C26_TagHeaderGrammar ==
    last.fn = "Tag::parse" => TagParsedAsOwed(last.input, last.r)

\* C26 witness: Tag::parse has refused `[a c=1 b]`, an identifier without
\* `=` after the first field
C26_BareIdentifierAfterField ==
    /\ last.fn = "Tag::parse"
    /\ last.input = <<91, 97, 32, 99, 61, 49, 32, 98, 93>>
    /\ last.r.k = "Err"

(* A reader of well-formed bodies, written from the grammar: tag headers   *)
(* `[name]`, each followed by assigns `path = value` with a path of path   *)
(* bytes or a quoted one and a value of digits or a quoted string.         *)

Ref(ok, ts) == [ok |-> ok, tags |-> ts]

\* the text is outside that grammar
Bad == Ref(FALSE, << >>)

\* the assign goes to the tag read last
AddAssign(ts, assign) == [ts EXCEPT ![Len(ts)].assigns = Append(@, assign)]

\* the longest prefix of s made of letters
RECURSIVE LetterRun(_)
LetterRun(s) ==
    IF s # << >> /\ IsAlphabetic(Head(s)) THEN <<Head(s)>> \o LetterRun(Tail(s)) ELSE << >>

\* the index of the quote that closes a string of plain bytes, 0 when a
\* backslash or a line feed comes first or no quote comes at all
RECURSIVE QuoteEndFrom(_, _)
QuoteEndFrom(s, i) ==
    IF i > Len(s) \/ s[i] \in {92, 10} THEN 0
    ELSE IF s[i] = 34 THEN i
    ELSE QuoteEndFrom(s, i + 1)

QuoteEnd(s) == QuoteEndFrom(s, 1)

RECURSIVE RefTags(_, _)
\* the value of an assign: digits that nothing extends to a longer literal,
\* or a quoted string
RefValue(path, s, ts) ==
    IF s # << >> /\ IsDigit(Head(s))
    THEN IF ByteAfter(s, Len(TakeDigits(s))) \in {46, 101} THEN Bad
         ELSE RefTags(SubSeq(s, Len(TakeDigits(s)) + 1, Len(s)),
                      AddAssign(ts, TagAssign(path, IntegerV(DigitsValue(TakeDigits(s))))))
    ELSE IF s # << >> /\ Head(s) = 34 /\ QuoteEnd(Tail(s)) > 0
    THEN RefTags(SubSeq(s, QuoteEnd(Tail(s)) + 2, Len(s)),
                 AddAssign(ts, TagAssign(path,
                                         StringV(SubSeq(s, 2, QuoteEnd(Tail(s)))))))
    ELSE Bad

\* after the path: `=` and the value
RefEqual(path, s, ts) ==
    IF path # << >> /\ s # << >> /\ Head(s) = 61
    THEN RefValue(path, SkipBlank(Tail(s)), ts)
    ELSE Bad

\* an assign, which needs a tag to go to
RefAssign(s, ts) ==
    IF ts = << >> THEN Bad
    ELSE IF Head(s) = 34
    THEN IF QuoteEnd(Tail(s)) > 0
         THEN RefEqual(SubSeq(s, 2, QuoteEnd(Tail(s))),
                       SkipBlank(SubSeq(s, QuoteEnd(Tail(s)) + 2, Len(s))), ts)
         ELSE Bad
    ELSE RefEqual(SubSeq(s, 1, Len(s) - Len(SkipPath(s))), SkipBlank(SkipPath(s)), ts)

\* a tag header, s the text after its `[`
RefTagHeader(s, ts) ==
    IF LetterRun(s) # << >> /\ ByteAfter(s, Len(LetterRun(s))) = 93
    THEN RefTags(SubSeq(s, Len(LetterRun(s)) + 2, Len(s)),
                 Append(ts, Tag(LetterRun(s), << >>, << >>)))
    ELSE Bad

RefItem(s, ts) ==
    IF s = << >> THEN Ref(TRUE, ts)
    ELSE IF Head(s) = 91 THEN RefTagHeader(Tail(s), ts)
    ELSE RefAssign(s, ts)

\* the tags of the body text s, after the tags ts read before it
RefTags(s, ts) == RefItem(SkipBlanksAndComments(s), ts)

\* the tags parse_file is to return, given what it has read and what is unread
TagsToCome ==
    CASE pc = "tag" -> RefTags(Unread(tokens), tags)
      [] pc = "assign" -> RefTags(Unread(tokens), Append(tags, cur))
      [] pc = "parsed" -> Ref(TRUE, file.tags)
      [] OTHER -> Bad

\* the same before the last step of the loop, from the call it made: the
\* unread text was the input of the call, and the step has moved the tag read
\* or the assign read into cur, or cur into tags
TagsToComeBefore ==
    CASE last.fn = "Tag::parse" /\ (pc \in {"assign", "parsed"} \/ error = "could not parse tag") ->
            RefTags(last.input, tags)
      [] last.fn = "TagAssign::parse" /\ last.r.k = "None" -> RefTags(last.input, tags)
      [] last.fn = "TagAssign::parse" /\ last.r.k = "Some" ->
            RefTags(last.input,
                    Append(tags, [cur EXCEPT !.assigns = SubSeq(@, 1, Len(@) - 1)]))
      [] last.fn = "TagAssign::parse" -> RefTags(last.input, Append(tags, cur))
      [] OTHER -> Bad

\* a step keeps the tags of a well-formed text
StillToCome(before, after) == before.ok => after = before

\* TagAssign::parse has met the `[` of the next tag header
MetNextHeader ==
    /\ last.fn = "TagAssign::parse"
    /\ SkipBlanksAndComments(last.input) # << >>
    /\ Head(SkipBlanksAndComments(last.input)) = 91

\* C27: for every well-formed input, parse_file returns the body tags in
\* input order, each with exactly the assigns between its header and the next
\* header or the end of input, in input order: no step of the loop loses,
\* repeats or moves a tag or an assign, and when TagAssign::parse meets `[`
\* with an empty path it returns None with the `[` pushed back, the next byte
\* Tag::parse reads.
C27_TagsInInputOrder ==
    /\ StillToCome(TagsToComeBefore, TagsToCome)
    /\ MetNextHeader =>
          /\ last.r = None
          /\ pc = "tag"
          /\ Unread(tokens) = SkipBlanksAndComments(last.input)

\* C27 witness: `[h][t]p=1[u]` has been parsed: the `[` of `[u]` was pushed
\* back by TagAssign::parse, p=1 belongs to t and u has no assign
C27_AssignThenHeaderParsed ==
    /\ pc = "parsed"
    /\ "assign_bracket" \in tokens.sites
    /\ file.tags = <<Tag(<<116>>, << >>, <<TagAssign(<<112>>, IntegerV(1))>>),
                     Tag(<<117>>, << >>, << >>)>>

----------------------------------------------------------------------------
(* Properties of the round trip, checked under SpecRoundTrip *)

NoQuoteOrNewline(string) == \A i \in 1..Len(string) : string[i] \notin {34, 10}

\* the strings of the object and of the configuration's terrains
RECURSIVE TerrainNamesPlain(_, _, _)
TerrainNamesPlain(terrain_sets, i, j) ==
    IF i > Len(terrain_sets) THEN TRUE
    ELSE IF j > Len(terrain_sets[i].terrains) THEN TerrainNamesPlain(terrain_sets, i + 1, 1)
    ELSE /\ NoQuoteOrNewline(terrain_sets[i].terrains[j].name)
         /\ TerrainNamesPlain(terrain_sets, i, j + 1)

StringsPlain(res, cfg) ==
    /\ NoQuoteOrNewline(res.uid)
    /\ NoQuoteOrNewline(res.texture_resource.uid)
    /\ NoQuoteOrNewline(res.texture_resource.path)
    /\ NoQuoteOrNewline(res.texture_resource.id)
    /\ NoQuoteOrNewline(res.tile_set_atlas_source.id)
    /\ NoQuoteOrNewline(res.tile_set_atlas_source.texture)
    /\ TerrainNamesPlain(cfg.terrain_sets, 1, 1)

\* the object read is the object written, its region size and tiles empty
ReadAsWritten(read, written) ==
    /\ read.uid = written.uid
    /\ read.texture_resource = written.texture_resource
    /\ read.tile_set_atlas_source
          = TileSetAtlasSource(written.tile_set_atlas_source.id,
                               written.tile_set_atlas_source.texture, Vector2i(0, 0), << >>)

\* C30: every file written by print_to_file from an object whose strings have
\* no double quote and no newline is accepted again by parse_file and
\* init_from_file, for any tiles and terrain sets; the object obtained has the
\* same uid, texture uid, path and id, atlas id and texture reference, its
\* region size and tiles empty; and a second write with the same region size,
\* tiles and terrain sets gives the same text.
C30_WrittenFileReadBack ==
    StringsPlain(resource, config) =>
        /\ pc # "failed"
        /\ pc \in {"reread", "reprinted"} => ReadAsWritten(parse_call.r.v, resource)
        /\ pc = "reprinted" => rewritten = writer.bytes

====
